---------------------------- MODULE Spec2Model ----------------------------
(***************************************************************************)
(* A model of go-slim/ini: the Manager (registry of sections and keys),    *)
(* the value transformation pipeline of Key.String, the line parser of     *)
(* Manager.parse, and the loading of data sources (Append, Batch, flush,   *)
(* Reload).                                                                *)
(*                                                                         *)
(* A Go string is a sequence of one-character strings, indexed from 0 as   *)
(* in Go: Slice(s, i, j) is s[i:j].                                        *)
(***************************************************************************)
EXTENDS Integers, Sequences, FiniteSets, TLC

----------------------------------------------------------------------------
(* Go's strings package, as the code uses it.                              *)

Slice(s, i, j) == SubSeq(s, i + 1, j)

HasPrefixAt(s, i, sub) ==
    /\ i + Len(sub) <= Len(s)
    /\ \A k \in 1..Len(sub) : s[i + k] = sub[k]

\* strings.Index: the first place of sub in s, or -1.
Index(s, sub) ==
    LET hits == {i \in 0..(Len(s) - Len(sub)) : HasPrefixAt(s, i, sub)}
    IN  IF hits = {} THEN -1 ELSE CHOOSE i \in hits : \A j \in hits : i <= j

\* strings.LastIndex: the last place of sub in s, or -1.
LastIndex(s, sub) ==
    LET hits == {i \in 0..(Len(s) - Len(sub)) : HasPrefixAt(s, i, sub)}
    IN  IF hits = {} THEN -1 ELSE CHOOSE i \in hits : \A j \in hits : i >= j

\* strings.IndexAny: the first place in s of any character of chars, or -1.
IndexAny(s, chars) ==
    LET hits == {i \in 0..(Len(s) - 1) : s[i + 1] \in chars}
    IN  IF hits = {} THEN -1 ELSE CHOOSE i \in hits : \A j \in hits : i <= j

Contains(s, sub) == Index(s, sub) >= 0

\* strings.IndexByte
IndexByte(s, c) == IndexAny(s, {c})

\* hasSurroundedQuote: the first and last characters are the quote and no
\* other character is.
hasSurroundedQuote(in, quote) ==
    /\ Len(in) >= 2
    /\ in[1] = quote
    /\ in[Len(in)] = quote
    /\ IndexByte(Slice(in, 1, Len(in)), quote) = Len(in) - 2

\* strings.Replace(s, old, new, -1) for a non-empty old: every occurrence,
\* left to right, without overlap.
RECURSIVE Replace(_, _, _)
Replace(s, old, new) ==
    LET i == Index(s, old)
    IN  IF i < 0 THEN s
        ELSE Slice(s, 0, i) \o new \o Replace(Slice(s, i + Len(old), Len(s)), old, new)

\* unicode.IsSpace on the characters the model uses.
IsSpace(c) == c \in {" ", "\t", "\n", "\r", "\f"}

RECURSIVE TrimLeft(_)
TrimLeft(s) ==
    IF Len(s) > 0 /\ IsSpace(s[1]) THEN TrimLeft(Tail(s)) ELSE s

RECURSIVE TrimRight(_)
TrimRight(s) ==
    IF Len(s) > 0 /\ IsSpace(s[Len(s)]) THEN TrimRight(Slice(s, 0, Len(s) - 1)) ELSE s

TrimSpace(s) == TrimRight(TrimLeft(s))

\* strings.SplitN(s, sep, 2).
SplitN2(s, sep) ==
    LET i == Index(s, sep)
    IN  IF i < 0 THEN <<s>>
        ELSE <<Slice(s, 0, i), Slice(s, i + Len(sep), Len(s))>>

\* strings.ToLower on the characters the model uses.
LowerOf(c) ==
    CASE c = "A" -> "a"
      [] c = "B" -> "b"
      [] c = "S" -> "s"
      [] OTHER -> c

ToLower(s) == [i \in 1..Len(s) |-> LowerOf(s[i])]

\* strconv.Itoa for n >= 0.
Digit(d) == <<"0", "1", "2", "3", "4", "5", "6", "7", "8", "9">>[d + 1]

RECURSIVE Itoa(_)
Itoa(n) == IF n < 10 THEN <<Digit(n)>> ELSE Itoa(n \div 10) \o <<Digit(n % 10)>>


----------------------------------------------------------------------------
(* Bounds of the model.                                                    *)

\* The longest run of one reference marker in a key's value.
MaxRepeat == 2

\* The most lines of a source.
MaxLines == 3

\* The most calls of NewSection and NewKey from outside parse.
MaxCalls == 1

\* The most calls the threads make on one manager, all threads together.
MaxLoadCalls == 3

\* The most Batch calls a thread is in at once.
MaxBatchDepth == 1

----------------------------------------------------------------------------
(* The state.                                                              *)

VARIABLES
    options,        \* Manager.options
    sectionList,    \* Manager.sectionList: the section names in creation order
    sections,       \* Manager.sections: name -> Section
    environ,        \* the process environment: name -> value (os.LookupEnv)
    tpc,            \* Key.String: "idle", "ref", "env" or "done"
    tkey,           \* Key.String: the key being read
    tval,           \* transformValue: val
    refCount,       \* transformReference: loop bodies entered in this read
    envCount,       \* transformEnvironment: loop bodies entered in this read
    tvr,            \* the marker matched last (vr)
    reader,         \* Manager.parse: the bytes of the io.Reader given to it
    parser,         \* Manager.parse: the parser p
    section,        \* Manager.parse: the name of the section `section' points to
    parserBufferSize, \* Manager.parse: parserBufferSize
    ppc,            \* Manager.parse: "idle", "lines", "done" or "failed"
    err,            \* Manager.parse: the error returned, "" for nil
    before,         \* history: the registry when Manager.parse was entered
    declared,       \* history: the section headers and key declarations made
    calls,          \* the calls of NewSection and NewKey made from outside parse
    ds,             \* the dataSource objects made, in order: [lock, kind, bytes]
    sources,        \* Manager.sources: places in ds
    futures,        \* Manager.futures: places in ds
    batch,          \* Manager.batch
    mutex,          \* Manager.mutex: the thread that holds Lock, or NoThread
    epoch,          \* how often Reload has cleared the sections: a *Section or
                    \* *Key got before the last clear is of no registered section
    th              \* the threads: where each is in the call it makes

regVars == <<options, sectionList, sections>>
tVars == <<environ, tpc, tkey, tval, refCount, envCount, tvr>>
pVars == <<reader, parser, section, parserBufferSize, ppc, err, before, declared, calls>>
lVars == <<ds, sources, futures, batch, mutex, epoch, th>>
vars == <<regVars, tVars, pVars, lVars>>

----------------------------------------------------------------------------
(* Options and New.                                                        *)

\* New: the options as given, with the defaults of the delimiters.
DefaultOptions ==
    [Loose |-> FALSE,
     Insensitive |-> FALSE,
     InsensitiveSections |-> FALSE,
     InsensitiveKeys |-> FALSE,
     IgnoreContinuation |-> FALSE,
     IgnoreInlineComment |-> FALSE,
     AllowPythonMultilineValues |-> FALSE,
     SpaceBeforeInlineComment |-> FALSE,
     UnescapeValueDoubleQuotes |-> FALSE,
     UnescapeValueCommentSymbols |-> FALSE,
     PreserveSurroundedQuote |-> FALSE,
     KeyValueDelimiters |-> {"=", ":"},
     ChildSectionDelimiter |-> <<".">>]

----------------------------------------------------------------------------
(* Sections and keys.                                                      *)

EmptyMap == <<>>

Put(f, k, v) == [x \in (DOMAIN f) \cup {k} |-> IF x = k THEN v ELSE f[x]]

\* slices.Contains
SliceContains(list, x) == \E i \in 1..Len(list) : list[i] = x

newKey(name, val) ==
    [name |-> name, value |-> val, Comment |-> <<>>,
     isAutoIncrement |-> FALSE, isBooleanType |-> FALSE]

newSection(name) ==
    [name |-> name, keys |-> EmptyMap, keyList |-> <<>>,
     keysHash |-> EmptyMap, Comment |-> <<>>]

\* A *Key is the pair of its section's name and its own name; NoKey is nil.
KeyRef(sname, kname) == [ok |-> TRUE, s |-> sname, name |-> kname]
NoKey == [ok |-> FALSE, s |-> <<>>, name |-> <<>>]

\* Manager.GetSection: ok is FALSE for the error return.
GetSection(name) ==
    LET n == IF (Len(name) > 0 /\ options.Insensitive) \/ options.InsensitiveSections
             THEN ToLower(name) ELSE name
    IN  IF SliceContains(sectionList, n)
        THEN [ok |-> TRUE, sec |-> sections[n]]
        ELSE [ok |-> FALSE, sec |-> newSection(n)]

\* Manager.Section: the section, or a zero-value section that is not registered.
Section(name) ==
    LET r == GetSection(name)
    IN  IF r.ok THEN r.sec ELSE newSection(name)

\* Section.GetKey, the walk up the parent sections: sname is cut at its last
\* delimiter until a registered section is found.
RECURSIVE GetKeyInParent(_, _)
RECURSIVE GetKey(_, _)
GetKeyInParent(sname, name) ==
    LET i == LastIndex(sname, options.ChildSectionDelimiter)
    IN  IF i > -1
        THEN LET up == Slice(sname, 0, i)
                 r == GetSection(up)
             IN  IF r.ok THEN GetKey(r.sec, name) ELSE GetKeyInParent(up, name)
        ELSE NoKey

\* Section.GetKey: the key of s called name, or NoKey for the error return.
GetKey(s, name) ==
    LET n == IF options.Insensitive \/ options.InsensitiveKeys
             THEN ToLower(name) ELSE name
    IN  IF n \in DOMAIN s.keys
        THEN KeyRef(s.name, n)
        ELSE GetKeyInParent(s.name, n)

\* k.value
ValueOf(k) == sections[k.s].keys[k.name].value

\* The registry of a manager as one value.
Registry == [list |-> sectionList, secs |-> sections]

\* Manager.NewSection on the registry reg: the name of the section returned
\* and the registry left.
NewSection(opts, reg, name) ==
    LET n == IF (opts.Insensitive \/ opts.InsensitiveSections) /\ Len(name) > 0
             THEN ToLower(name) ELSE name
    IN  [name |-> n,
         reg |-> IF SliceContains(reg.list, n) THEN reg
                 ELSE [list |-> Append(reg.list, n),
                       secs |-> Put(reg.secs, n, newSection(n))]]

\* A NewKey under which the last declaration of a name wins.
NewKey_LastWins(opts, reg, sname, name, value) ==
    LET n == IF opts.Insensitive \/ opts.InsensitiveKeys THEN ToLower(name) ELSE name
        s == reg.secs[sname]
    IN  [name |-> n,
         reg |-> [reg EXCEPT !.secs[sname] =
                    [s EXCEPT !.keyList = IF SliceContains(s.keyList, n)
                                          THEN @ ELSE Append(@, n),
                              !.keys = Put(@, n, newKey(n, value)),
                              !.keysHash = Put(@, n, value)]]]

\* Section.NewKey on the section called sname: the name of the key returned
\* and the registry left.
NewKey(opts, reg, sname, name, value) ==
    LET n == IF opts.Insensitive \/ opts.InsensitiveKeys THEN ToLower(name) ELSE name
        s == reg.secs[sname]
    IN  [name |-> n,
         reg |-> IF SliceContains(s.keyList, n) THEN reg
                 ELSE [reg EXCEPT !.secs[sname] =
                         [s EXCEPT !.keyList = Append(@, n),
                                   !.keys = Put(@, n, newKey(n, value)),
                                   !.keysHash = Put(@, n, value)]]]

\* Section.NewBooleanKey
NewBooleanKey(opts, reg, sname, name) ==
    LET k == NewKey(opts, reg, sname, name, <<"t", "r", "u", "e">>)
    IN  [name |-> k.name,
         reg |-> [k.reg EXCEPT !.secs[sname].keys[k.name].isBooleanType = TRUE]]


----------------------------------------------------------------------------
(* The parser. A parser p is [buf, isEOF, count, comment]: buf is what the *)
(* reader has not yet given, comment the accumulated comment text.         *)

minReaderBufferSize == 4096

\* The backquote character, and the bytes of the byte order marks, are
\* written as tokens: one token is one byte of the stream.
Backquote == "BQ"

newParser(r) == [buf |-> r, isEOF |-> FALSE, count |-> 1, comment |-> <<>>]

\* bufio.Reader.Peek(n): the next n bytes, fewer at the end of the stream or
\* past the buffer's size.
Peek(p, n) ==
    LET m == IF n < minReaderBufferSize THEN n ELSE minReaderBufferSize
    IN  Slice(p.buf, 0, IF m < Len(p.buf) THEN m ELSE Len(p.buf))

\* bufio.Reader.Read / Discard of n buffered bytes.
Discard(p, n) == [p EXCEPT !.buf = Slice(p.buf, n, Len(p.buf))]

\* A BOM that reads off three bytes after EF BB, whatever the third.
BOM_AnyThird(p) ==
    LET mask == Peek(p, 2)
    IN  IF Len(mask) < 2 THEN p
        ELSE IF mask = <<"FE", "FF">> \/ mask = <<"FF", "FE">> THEN Discard(p, 2)
        ELSE IF mask = <<"EF", "BB">>
             THEN (IF Len(Peek(p, 3)) < 3 THEN p ELSE Discard(p, 3))
        ELSE p

\* parser.BOM: the byte order marks FE FF, FF FE and EF BB BF are read off.
BOM(p) ==
    LET mask == Peek(p, 2)
    IN  IF Len(mask) < 2 THEN p
        ELSE IF mask = <<"FE", "FF">> \/ mask = <<"FF", "FE">> THEN Discard(p, 2)
        ELSE IF mask = <<"EF", "BB">>
             THEN LET mask3 == Peek(p, 3)
                  IN  IF Len(mask3) < 3 THEN p
                      ELSE IF mask3[3] = "BF" THEN Discard(p, 3) ELSE p
        ELSE p

\* ReadBytes('\n') of a reader or buffer holding b: the bytes up to and
\* with the next line break, or all of b.
ReadBytes(b) ==
    LET i == IndexByte(b, "\n")
    IN  IF i < 0 THEN b ELSE Slice(b, 0, i + 1)

\* parser.readUntil('\n'): the bytes read; a stream that ends with no line
\* break sets isEOF.
readUntilData(p, data) ==
    [p |-> [p EXCEPT !.buf = Slice(p.buf, Len(data), Len(p.buf)),
                     !.isEOF = p.isEOF \/ IndexByte(data, "\n") < 0],
     data |-> data]

readUntil(p) == readUntilData(p, ReadBytes(p.buf))

\* cleanComment: in from its first "#" or ";" on.
cleanComment(in) ==
    LET i == IndexAny(in, {"#", ";"})
    IN  IF i = -1 THEN [has |-> FALSE, comment |-> <<>>]
        ELSE [has |-> TRUE, comment |-> Slice(in, i, Len(in))]

\* p.comment.Write
WriteComment(p, text) == [p EXCEPT !.comment = p.comment \o text]

\* The quote a key name opens with, or the empty string.
keyQuoteOf(line) ==
    IF line[1] = "\""
    THEN (IF Len(line) > 6 /\ Slice(line, 0, 3) = <<"\"", "\"", "\"">>
          THEN <<"\"", "\"", "\"">> ELSE <<"\"">>)
    ELSE IF line[1] = Backquote THEN <<Backquote>> ELSE <<>>

\* What readKeyName returns with no name.
NoName == [name |-> <<>>, offset |-> -1, nameOnly |-> FALSE, err |-> ""]

\* readKeyName, a name in quotes: found is the place of the closing quote
\* after the opening one.
readQuotedKeyName(delimiters, line, startIdx, found) ==
    LET i == IndexAny(Slice(line, found + 2 * startIdx, Len(line)), delimiters)
    IN  IF found = -1 THEN [NoName EXCEPT !.err = "missing closing key quote"]
        ELSE IF i < 0 THEN [NoName EXCEPT !.nameOnly = TRUE]
        ELSE [NoName EXCEPT !.name = TrimSpace(Slice(line, startIdx, found + startIdx)),
                            !.offset = found + startIdx + i + startIdx + 1]

\* readKeyName, a name with no quotes: endIdx is the place of the delimiter.
readBareKeyName(line, endIdx) ==
    IF endIdx < 0 THEN [NoName EXCEPT !.nameOnly = TRUE]
    ELSE IF endIdx = 0 THEN [NoName EXCEPT !.err = "empty key name"]
    ELSE [NoName EXCEPT !.name = TrimSpace(Slice(line, 0, endIdx)),
                        !.offset = endIdx + 1]

readKeyNameQuote(delimiters, line, keyQuote) ==
    IF Len(keyQuote) > 0
    THEN readQuotedKeyName(delimiters, line, Len(keyQuote),
                           Index(Slice(line, Len(keyQuote), Len(line)), keyQuote))
    ELSE readBareKeyName(line, IndexAny(line, delimiters))

\* readKeyName: [name, offset, nameOnly, err] of a line that is not empty.
readKeyName(delimiters, line) == readKeyNameQuote(delimiters, line, keyQuoteOf(line))

\* parser.readMultilines: lines are added to val up to the last valQuote of
\* the first line that holds one; the stream ending before is an error.
\* r is what readUntil gave, pos the place of valQuote in it.
RECURSIVE readMultilines(_, _, _)
readMultilinesComment(q, c) ==
    IF c.has THEN WriteComment(q, TrimSpace(c.comment)) ELSE q

readMultilinesLine(r, val, valQuote, pos) ==
    IF pos > -1
    THEN [p |-> readMultilinesComment(r.p, cleanComment(Slice(r.data, pos, Len(r.data)))),
          val |-> val \o Slice(r.data, 0, pos), err |-> ""]
    ELSE IF r.p.isEOF
    THEN [p |-> r.p, val |-> <<>>, err |-> "missing closing key quote"]
    ELSE readMultilines(r.p, val \o r.data, valQuote)

readMultilinesRead(r, val, valQuote) ==
    readMultilinesLine(r, val, valQuote, LastIndex(r.data, valQuote))

readMultilines(p, val, valQuote) == readMultilinesRead(readUntil(p), val, valQuote)

\* parser.readContinuationLines: the next lines, trimmed, are added to val
\* while the line added ends in a backslash.
RECURSIVE readContinuationLines(_, _)
\* A joining that keeps the backslash of a line it goes on from.
readContinuationLine_KeepBackslash(q, val, next) ==
    IF Len(next) = 0 THEN [p |-> q, val |-> val, err |-> ""]
    ELSE IF next[Len(next)] # "\\" THEN [p |-> q, val |-> val \o next, err |-> ""]
    ELSE readContinuationLines(q, val \o next)

readContinuationLine(q, val, next) ==
    IF Len(next) = 0 THEN [p |-> q, val |-> val, err |-> ""]
    ELSE IF next[Len(next)] # "\\" THEN [p |-> q, val |-> val \o next, err |-> ""]
    ELSE readContinuationLines(q, val \o Slice(next, 0, Len(next) - 1))

readContinuationRead(r, val) == readContinuationLine(r.p, val, TrimSpace(r.data))

readContinuationLines(p, val) == readContinuationRead(readUntil(p), val)

\* A match that gives the line without its indentation.
pythonMultiline_NoIndent(data) ==
    LET nl == IndexByte(data, "\n")
    IN  IF Len(data) > 0 /\ data[1] \in {"\t", "\f", " "}
        THEN [ok |-> TRUE, m |-> TrimLeft(IF nl < 0 THEN data ELSE Slice(data, 0, nl))]
        ELSE [ok |-> FALSE, m |-> <<>>]

\* pythonMultiline.FindStringSubmatch, element 0: the match of
\* ^([\t\f ]+)(.*) in a line, or no match. "." matches no line break.
pythonMultiline_Match(data) ==
    LET nl == IndexByte(data, "\n")
    IN  IF Len(data) > 0 /\ data[1] \in {"\t", "\f", " "}
        THEN [ok |-> TRUE, m |-> IF nl < 0 THEN data ELSE Slice(data, 0, nl)]
        ELSE [ok |-> FALSE, m |-> <<>>]

\* parser.readPythonMultilines: the loop over the peeked lines. peek is what
\* is left of the peeked bytes; every line taken is discarded from p.
RECURSIVE pythonLines(_, _, _)
pythonLine(p, peek, line, peekData, mt) ==
    IF ~mt.ok THEN [p |-> p, val |-> line, err |-> ""]
    ELSE pythonLines(Discard(p, Len(peekData)),
                     Slice(peek, Len(peekData), Len(peek)),
                     line \o <<"\n">> \o mt.m)

pythonPeek(p, peek, line, peekData) ==
    pythonLine(p, peek, line, peekData, pythonMultiline_Match(peekData))

pythonLines(p, peek, line) ==
    pythonPeek(p, peek, line, ReadBytes(peek))

readPythonMultilines(p, line, bufferSize) ==
    pythonLines(p, Peek(p, bufferSize), line)

\* parser.readValue, the place of an inline comment in line, or -1.
inlineCommentIndex(opts, line) ==
    IF opts.SpaceBeforeInlineComment
    THEN (IF Index(line, <<" ", "#">>) = -1
          THEN Index(line, <<" ", ";">>) ELSE Index(line, <<" ", "#">>))
    ELSE IndexAny(line, {"#", ";"})

\* parser.readValue, after the inline comment is cut: the quotes around the
\* value, the escaped comment symbols, the indented lines.
readUnquoted(p, opts, lastChar, line, bufferSize) ==
    IF (hasSurroundedQuote(line, "'") \/ hasSurroundedQuote(line, "\""))
           /\ ~opts.PreserveSurroundedQuote
    THEN [p |-> p, val |-> Slice(line, 1, Len(line) - 1), err |-> ""]
    ELSE IF opts.UnescapeValueCommentSymbols
    THEN [p |-> p, err |-> "",
          val |-> Replace(Replace(line, <<"\\", ";">>, <<";">>), <<"\\", "#">>, <<"#">>)]
    ELSE IF opts.AllowPythonMultilineValues /\ lastChar = "\n"
    THEN readPythonMultilines(p, line, bufferSize)
    ELSE [p |-> p, val |-> line, err |-> ""]

\* parser.readValue, the inline comment at i is written to p.comment and cut.
readInlineComment(p, opts, lastChar, line, i, bufferSize) ==
    IF ~opts.IgnoreInlineComment /\ i > -1
    THEN readUnquoted(WriteComment(p, Slice(line, i, Len(line))), opts, lastChar,
                      TrimSpace(Slice(line, 0, i)), bufferSize)
    ELSE readUnquoted(p, opts, lastChar, line, bufferSize)

\* parser.readValue, a value with no value quote: line is trimmed.
readTrimmed(p, opts, lastChar, line, bufferSize) ==
    IF ~opts.IgnoreContinuation /\ line[Len(line)] = "\\"
    THEN readContinuationLines(p, Slice(line, 0, Len(line) - 1))
    ELSE readInlineComment(p, opts, lastChar, line, inlineCommentIndex(opts, line),
                           bufferSize)

\* A detection that takes no backquote for a value quote.
valQuoteOf_TripleOnly(opts, line) ==
    IF Len(line) > 3 /\ Slice(line, 0, 3) = <<"\"", "\"", "\"">>
    THEN <<"\"", "\"", "\"">>
    ELSE IF opts.UnescapeValueDoubleQuotes /\ line[1] = "\"" THEN <<"\"">>
    ELSE <<>>

\* The quote a value opens with, or the empty string.
valQuoteOf(opts, line) ==
    IF Len(line) > 3 /\ Slice(line, 0, 3) = <<"\"", "\"", "\"">>
    THEN <<"\"", "\"", "\"">>
    ELSE IF line[1] = Backquote THEN <<Backquote>>
    ELSE IF opts.UnescapeValueDoubleQuotes /\ line[1] = "\"" THEN <<"\"">>
    ELSE <<>>

\* parser.readValue, a value in valQuote: pos is the place of the last
\* valQuote after the opening one.
readQuoted(p, opts, line, valQuote, startIdx, pos) ==
    IF pos = -1
    THEN readMultilines(p, Slice(line, startIdx, Len(line)), valQuote)
    ELSE IF opts.UnescapeValueDoubleQuotes /\ valQuote = <<"\"">>
    THEN [p |-> p, err |-> "",
          val |-> Replace(Slice(line, startIdx, pos + startIdx),
                          <<"\\", "\"">>, <<"\"">>)]
    ELSE [p |-> p, val |-> Slice(line, startIdx, pos + startIdx), err |-> ""]

\* A readValue that leaves the space after an unquoted value.
readValueQuote_NoTrim(p, opts, line, valQuote, bufferSize) ==
    IF Len(valQuote) > 0
    THEN readQuoted(p, opts, line, valQuote, Len(valQuote),
                    LastIndex(Slice(line, Len(valQuote), Len(line)), valQuote))
    ELSE readTrimmed(p, opts, line[Len(line)], line, bufferSize)

readValueQuote(p, opts, line, valQuote, bufferSize) ==
    IF Len(valQuote) > 0
    THEN readQuoted(p, opts, line, valQuote, Len(valQuote),
                    LastIndex(Slice(line, Len(valQuote), Len(line)), valQuote))
    ELSE readTrimmed(p, opts, line[Len(line)], TrimSpace(line), bufferSize)

readValueLine(p, opts, in, line, bufferSize) ==
    IF Len(line) = 0
    THEN (IF opts.AllowPythonMultilineValues /\ Len(in) > 0 /\ in[Len(in)] = "\n"
          THEN readPythonMultilines(p, line, bufferSize)
          ELSE [p |-> p, val |-> <<>>, err |-> ""])
    ELSE readValueQuote(p, opts, line, valQuoteOf(opts, line), bufferSize)

\* parser.readValue: [p, val, err] for the text in after the delimiter (or
\* the whole line of a key with no delimiter).
readValue(p, opts, in, bufferSize) == readValueLine(p, opts, in, TrimLeft(in), bufferSize)

\* A declaration made: a section header, a key line or a call of NewKey.
\* count is p.count when the line was read.
Declaration(kind, sname, declaredName, name, value, count) ==
    [kind |-> kind, s |-> sname, declared |-> declaredName, name |-> name,
     value |-> value, count |-> count]

\* A section header that leaves the counter of automatic names as it is.
parseHeader_NoReset(p1, line, keep, closeIdx, ns, c) ==
    [keep EXCEPT
       !.reg = [ns.reg EXCEPT !.secs[ns.name].Comment =
                                 TrimSpace(p1.comment \o c.comment)],
       !.section = ns.name,
       !.p = [p1 EXCEPT !.comment = <<>>],
       !.decl = <<Declaration("section", ns.name, <<>>, <<>>, <<>>, p1.count)>>]

\* Manager.parse, a section header line that closes at closeIdx: ns is what
\* NewSection gave.
parseHeader(p1, line, keep, closeIdx, ns, c) ==
    [keep EXCEPT
       !.reg = [ns.reg EXCEPT !.secs[ns.name].Comment =
                                 TrimSpace(p1.comment \o c.comment)],
       !.section = ns.name,
       !.p = [p1 EXCEPT !.comment = <<>>, !.count = 1],
       !.decl = <<Declaration("section", ns.name, <<>>, <<>>, <<>>, p1.count)>>]

parseSectionAt(opts, p1, reg, line, keep, closeIdx) ==
    IF closeIdx = -1 THEN [keep EXCEPT !.err = "unclosed section"]
    ELSE parseHeader(p1, line, keep, closeIdx,
                     NewSection(opts, reg, Slice(line, 1, closeIdx)),
                     cleanComment(Slice(line, closeIdx + 1, Len(line))))

\* Manager.parse, a section header line.
parseSection(opts, p1, reg, line, keep) ==
    parseSectionAt(opts, p1, reg, line, keep, LastIndex(line, <<"]">>))

\* Manager.parse, a line with no delimiter: bv is what readValue gave for the
\* line, bk what NewBooleanKey gave.
parseBooleanKeyNew(sec, keep, count, bv, bk) ==
    [keep EXCEPT
       !.reg = [bk.reg EXCEPT !.secs[sec].keys[bk.name].Comment = TrimSpace(bv.p.comment)],
       !.p = [bv.p EXCEPT !.comment = <<>>],
       !.decl = <<Declaration("bool", sec, bv.val, bk.name, <<"t", "r", "u", "e">>,
                              count)>>]

parseBooleanKey(opts, reg, sec, keep, count, bv) ==
    IF bv.err # "" THEN [keep EXCEPT !.err = bv.err, !.p = bv.p]
    ELSE parseBooleanKeyNew(sec, keep, count, bv, NewBooleanKey(opts, reg, sec, bv.val))

\* A key line that leaves the accumulated comment where it is.
parseValueKeyNew_NoReset(sec, keep, declaredName, count, isAutoIncr, rv, nk) ==
    [keep EXCEPT
       !.reg = [nk.reg EXCEPT
                  !.secs[sec].keys[nk.name].isAutoIncrement = isAutoIncr,
                  !.secs[sec].keys[nk.name].Comment = TrimSpace(rv.p.comment)],
       !.p = rv.p,
       !.decl = <<Declaration("key", sec, declaredName, nk.name, rv.val, count)>>]

\* Manager.parse, a key line with a delimiter: rv is what readValue gave for
\* the text after it, nk what NewKey gave.
parseValueKeyNew(sec, keep, declaredName, count, isAutoIncr, rv, nk) ==
    [keep EXCEPT
       !.reg = [nk.reg EXCEPT
                  !.secs[sec].keys[nk.name].isAutoIncrement = isAutoIncr,
                  !.secs[sec].keys[nk.name].Comment = TrimSpace(rv.p.comment)],
       !.p = [rv.p EXCEPT !.comment = <<>>],
       !.decl = <<Declaration("key", sec, declaredName, nk.name, rv.val, count)>>]

parseValueKey(opts, reg, sec, keep, declaredName, kname, count, isAutoIncr, rv) ==
    IF rv.err # "" THEN [keep EXCEPT !.err = rv.err, !.p = rv.p]
    ELSE parseValueKeyNew(sec, keep, declaredName, count, isAutoIncr, rv,
                          NewKey(opts, reg, sec, kname, rv.val))

\* The automatic name: a key declared as "-" is called "#" and p.count, and
\* p.count goes up by one.
autoIncrement(p1, kname) ==
    IF kname = <<"-">>
    THEN [isAutoIncr |-> TRUE, kname |-> <<"#">> \o Itoa(p1.count),
          p |-> [p1 EXCEPT !.count = @ + 1]]
    ELSE [isAutoIncr |-> FALSE, kname |-> kname, p |-> p1]

parseNamedKey(opts, p1, reg, sec, bufferSize, line, keep, kn, auto) ==
    parseValueKey(opts, reg, sec, keep, kn.name, auto.kname, p1.count, auto.isAutoIncr,
                  readValue(auto.p, opts, Slice(line, kn.offset, Len(line)), bufferSize))

parseKeyName(opts, p1, reg, sec, bufferSize, line, keep, kn) ==
    IF kn.err # "" THEN [keep EXCEPT !.err = kn.err]
    ELSE IF kn.nameOnly
    THEN parseBooleanKey(opts, reg, sec, keep, p1.count,
                         readValue(p1, opts, line, bufferSize))
    ELSE parseNamedKey(opts, p1, reg, sec, bufferSize, line, keep, kn,
                       autoIncrement(p1, kn.name))

\* Manager.parse, a key line.
parseKey(opts, p1, reg, sec, bufferSize, line, keep) ==
    parseKeyName(opts, p1, reg, sec, bufferSize, line, keep,
                 readKeyName(opts.KeyValueDelimiters, line))

\* Manager.parse, one turn of the loop over the lines: r is what readUntil
\* gave and line its bytes after the leading space.
parseRead(opts, reg, sec, bufferSize, r, line, keep) ==
    IF Len(line) = 0 THEN keep
    ELSE IF line[1] \in {"#", ";"} THEN [keep EXCEPT !.p = WriteComment(r.p, line)]
    ELSE IF line[1] = "[" THEN parseSection(opts, r.p, reg, line, keep)
    ELSE parseKey(opts, r.p, reg, sec, bufferSize, line, keep)

parseUntil(opts, reg, sec, bufferSize, r) ==
    parseRead(opts, reg, sec, bufferSize, r, TrimLeft(r.data),
              [p |-> r.p, reg |-> reg, section |-> sec, err |-> "", decl |-> <<>>])

parseLine(opts, p0, reg, sec, bufferSize) ==
    parseUntil(opts, reg, sec, bufferSize, readUntil(p0))

\* Manager.parse up to the loop: the parser, the byte order mark, the default
\* section and the size of the parser's buffer.
ParseBegin ==
    /\ ppc = "idle"
    /\ LET p0 == BOM(newParser(reader))
           ns == NewSection(options, Registry, <<>>)
       IN  /\ parser' = p0
           /\ section' = ns.name
           /\ sectionList' = ns.reg.list
           /\ sections' = ns.reg.secs
           /\ parserBufferSize' = IF options.AllowPythonMultilineValues
                                  THEN Len(Peek(p0, minReaderBufferSize)) ELSE 0
    /\ before' = Registry
    /\ ppc' = "lines"
    /\ UNCHANGED <<options, tVars, lVars, reader, err, declared, calls>>

\* What one turn of the loop leaves.
ParseLineReturns(out) ==
    /\ parser' = out.p
    /\ section' = out.section
    /\ sectionList' = out.reg.list
    /\ sections' = out.reg.secs
    /\ err' = out.err
    /\ ppc' = IF out.err # "" THEN "failed" ELSE "lines"
    /\ declared' = declared \o out.decl

\* Manager.parse, one turn of the loop: a line is read and handled, or the
\* error of a line is returned.
ParseLine ==
    /\ ppc = "lines"
    /\ ~parser.isEOF
    /\ ParseLineReturns(parseLine(options, parser, Registry, section, parserBufferSize))
    /\ UNCHANGED <<options, tVars, lVars, reader, parserBufferSize, before, calls>>

\* Manager.parse, the loop ends at the end of the stream: nil is returned.
ParseEnd ==
    /\ ppc = "lines"
    /\ parser.isEOF
    /\ ppc' = "done"
    /\ UNCHANGED <<regVars, tVars, lVars, reader, parser, section, parserBufferSize, err,
                   before, declared, calls>>

\* NewSection called from outside parse.
NewSectionCall(name) ==
    /\ ppc # "lines"
    /\ calls < MaxCalls
    /\ LET ns == NewSection(options, Registry, name)
       IN  /\ sectionList' = ns.reg.list
           /\ sections' = ns.reg.secs
    /\ calls' = calls + 1
    /\ UNCHANGED <<options, tVars, lVars, reader, parser, section, parserBufferSize, ppc,
                   err, before, declared>>

\* NewKey called from outside parse on the registered section sname.
NewKeyCall(sname, name, value) ==
    /\ ppc # "lines"
    /\ calls < MaxCalls
    /\ sname \in DOMAIN sections
    /\ LET nk == NewKey(options, Registry, sname, name, value)
       IN  /\ sectionList' = nk.reg.list
           /\ sections' = nk.reg.secs
           /\ declared' = Append(declared,
                                 Declaration("NewKey", sname, name, nk.name, value, 0))
    /\ calls' = calls + 1
    /\ UNCHANGED <<options, tVars, lVars, reader, parser, section, parserBufferSize, ppc,
                   err, before>>

\* No parse has begun.
ParserIdle ==
    /\ reader = <<>>
    /\ parser = newParser(<<>>)
    /\ section = <<>>
    /\ parserBufferSize = 0
    /\ ppc = "idle"
    /\ err = ""
    /\ before = [list |-> <<>>, secs |-> EmptyMap]
    /\ declared = <<>>
    /\ calls = 0

----------------------------------------------------------------------------
(* The value transformation pipeline: Key.String.                          *)

\* Maximum allowed depth when recursively substituing variable names.
depthValues == 99

\* varPattern.FindString: the leftmost match of %\(([^)]+)\)s, or the empty
\* string. After "%(" the run [^)]+ ends at the first ")", so a start matches
\* iff that ")" is at least one character on and an "s" follows it.
MatchVarAt(val, i) ==
    IF ~HasPrefixAt(val, i, <<"%", "(">>) THEN -1
    ELSE LET rest == Slice(val, i + 2, Len(val))
             j == Index(rest, <<")">>)
         IN  IF j >= 1 /\ HasPrefixAt(rest, j + 1, <<"s">>) THEN i + 2 + j + 2 ELSE -1

varPattern_FindString(val) ==
    LET hits == {i \in 0..(Len(val) - 1) : MatchVarAt(val, i) >= 0}
    IN  IF hits = {} THEN <<>>
        ELSE LET i == CHOOSE h \in hits : \A g \in hits : h <= g
             IN  Slice(val, i, MatchVarAt(val, i))

\* envPattern.FindString: the leftmost match of \$\{([^}]+)\}, or the empty string.
MatchEnvAt(val, i) ==
    IF ~HasPrefixAt(val, i, <<"$", "{">>) THEN -1
    ELSE LET rest == Slice(val, i + 2, Len(val))
             j == Index(rest, <<"}">>)
         IN  IF j >= 1 THEN i + 2 + j + 1 ELSE -1

envPattern_FindString(val) ==
    LET hits == {i \in 0..(Len(val) - 1) : MatchEnvAt(val, i) >= 0}
    IN  IF hits = {} THEN <<>>
        ELSE LET i == CHOOSE h \in hits : \A g \in hits : h <= g
             IN  Slice(val, i, MatchEnvAt(val, i))

trimQuote(s) ==
    IF hasSurroundedQuote(s, "'") \/ hasSurroundedQuote(s, "\"")
    THEN Slice(s, 1, Len(s) - 1)
    ELSE s

\* transformCustom with no Transformer set: the raw value.
transformCustom(k) == ValueOf(k)

\* A lookup that skips the key's own section.
LookupReference_DefaultOnly(k, noption) == GetKey(Section(<<>>), noption)

\* transformReference, the lookup of one loop body: the key a marker names,
\* in k's section first and, when it is not there or is k itself, in the
\* default section.
LookupReference(k, noption) ==
    LET nk == GetKey(sections[k.s], noption)
    IN  IF ~nk.ok \/ nk = k THEN GetKey(Section(<<>>), noption) ELSE nk

\* A loop body that drops a marker that names no key and goes on.
ReferenceBody_SkipMissing(k, val) ==
    LET vr == varPattern_FindString(val)
    IN  IF Len(vr) = 0 THEN [done |-> TRUE, val |-> val, vr |-> vr]
        ELSE LET noption == Slice(vr, 2, Len(vr) - 2)
                 nk == LookupReference(k, noption)
             IN  IF ~nk.ok THEN [done |-> FALSE, val |-> Replace(val, vr, <<>>), vr |-> vr]
                 ELSE [done |-> FALSE, val |-> Replace(val, vr, ValueOf(nk)), vr |-> vr]

\* transformReference, one loop body on val: done is the break.
ReferenceBody(k, val) ==
    LET vr == varPattern_FindString(val)
    IN  IF Len(vr) = 0 THEN [done |-> TRUE, val |-> val, vr |-> vr]
        ELSE LET noption == Slice(vr, 2, Len(vr) - 2)
                 nk == LookupReference(k, noption)
             IN  IF ~nk.ok THEN [done |-> TRUE, val |-> val, vr |-> vr]
                 ELSE [done |-> FALSE, val |-> Replace(val, vr, ValueOf(nk)), vr |-> vr]

\* transformEnvironment: the marker's text split into the variable's name, the
\* default and the force flag.
EnvOption(noption) ==
    LET q == SplitN2(noption, <<"?", "?">>)
        force == Len(q) = 1
        parts == IF force THEN SplitN2(noption, <<"|", "|">>) ELSE q
    IN  [key |-> TrimSpace(parts[1]),
         def |-> IF Len(parts) = 2 THEN trimQuote(TrimSpace(parts[2])) ELSE <<>>,
         force |-> force]

\* A resolution that takes the default for every empty value, forced or not.
EnvValue_AlwaysForce(o) ==
    IF o.key \notin DOMAIN environ \/ environ[o.key] = <<>> THEN o.def ELSE environ[o.key]

\* transformEnvironment: the value a marker is replaced by.
EnvValue(o) ==
    LET ok == o.key \in DOMAIN environ
    IN  IF ~ok \/ (environ[o.key] = <<>> /\ o.force) THEN o.def ELSE environ[o.key]

\* transformEnvironment, one loop body on val: done is the break.
EnvironmentBody(val) ==
    LET vr == envPattern_FindString(val)
    IN  IF Len(vr) = 0 THEN [done |-> TRUE, val |-> val, vr |-> vr]
        ELSE LET noption == Slice(vr, 2, Len(vr) - 1)
                 value == EnvValue(EnvOption(noption))
             IN  [done |-> FALSE, val |-> Replace(val, vr, value), vr |-> vr]

\* A loop with no cap.
LoopRuns_NoCap(i) == i >= 0

\* The loop "for range depthValues" runs another body after i bodies.
LoopRuns(i) == i < depthValues

\* transformValue passes val on to transformEnvironment, which returns at
\* once when val holds no "$".
EnterEnvironment(val) ==
    /\ tval' = val
    /\ tpc' = IF Contains(val, <<"$">>) THEN "env" ELSE "done"

\* Key.String is called on k: transformCustom, then transformReference, which
\* returns at once when val holds no "%".
String(k) ==
    /\ tpc \in {"idle", "done"}
    /\ tkey' = k
    /\ refCount' = 0
    /\ envCount' = 0
    /\ tvr' = <<>>
    /\ LET val == transformCustom(k)
       IN  IF Contains(val, <<"%">>)
           THEN tval' = val /\ tpc' = "ref"
           ELSE EnterEnvironment(val)
    /\ UNCHANGED <<regVars, pVars, lVars, environ>>

\* transformReference: one body of the loop.
ReferenceStep ==
    /\ tpc = "ref"
    /\ LoopRuns(refCount)
    /\ refCount' = refCount + 1
    /\ LET r == ReferenceBody(tkey, tval)
       IN  /\ tvr' = r.vr
           /\ IF r.done THEN EnterEnvironment(tval)
              ELSE tval' = r.val /\ tpc' = "ref"
    /\ UNCHANGED <<regVars, pVars, lVars, environ, tkey, envCount>>

\* transformReference: the loop ends after depthValues bodies.
ReferenceEnd ==
    /\ tpc = "ref"
    /\ ~LoopRuns(refCount)
    /\ EnterEnvironment(tval)
    /\ UNCHANGED <<regVars, pVars, lVars, environ, tkey, refCount, envCount, tvr>>

\* transformEnvironment: one body of the loop.
EnvironmentStep ==
    /\ tpc = "env"
    /\ LoopRuns(envCount)
    /\ envCount' = envCount + 1
    /\ LET r == EnvironmentBody(tval)
       IN  /\ tvr' = r.vr
           /\ tval' = r.val
           /\ tpc' = IF r.done THEN "done" ELSE "env"
    /\ UNCHANGED <<regVars, pVars, lVars, environ, tkey, refCount>>

\* transformEnvironment: the loop ends after depthValues bodies.
EnvironmentEnd ==
    /\ tpc = "env"
    /\ ~LoopRuns(envCount)
    /\ tpc' = "done"
    /\ UNCHANGED <<regVars, pVars, lVars, environ, tkey, tval, refCount, envCount, tvr>>


\* transformReference as a whole: the loop after i bodies.
RECURSIVE referenceLoop(_, _, _)
referenceLoop(k, val, i) ==
    IF ~LoopRuns(i) \/ ReferenceBody(k, val).done THEN val
    ELSE referenceLoop(k, ReferenceBody(k, val).val, i + 1)

transformReference(k, val) ==
    IF ~Contains(val, <<"%">>) THEN val ELSE referenceLoop(k, val, 0)

\* transformEnvironment as a whole: the loop after i bodies.
RECURSIVE environmentLoop(_, _)
environmentLoop(val, i) ==
    IF ~LoopRuns(i) \/ EnvironmentBody(val).done THEN val
    ELSE environmentLoop(EnvironmentBody(val).val, i + 1)

transformEnvironment(val) ==
    IF ~Contains(val, <<"$">>) THEN val ELSE environmentLoop(val, 0)

\* transformValue: what Key.String returns for k.
transformValue(k) == transformEnvironment(transformReference(k, transformCustom(k)))

----------------------------------------------------------------------------
(* Loading data sources: Append, Batch, flush, Reload, and the calls that  *)
(* write a key's value, made by threads on one manager.                    *)

Threads == {"t1", "t2"}
NoThread == "none"

\* parseDataSource: a []byte source, and a path to a file that is not there.
BytesSource(b) == [lock |-> 0, kind |-> "bytes", bytes |-> b]
MissingFile == [lock |-> 0, kind |-> "path", bytes |-> <<>>]

\* A thread that is in no call. owner holds, for every Batch call the thread
\* is in, whether that call found the flag false; queued is the history of the
\* sources it has appended inside its Batch call; last is the call that
\* returned last.
IdleThread ==
    [pc |-> "idle", n |-> 0, op |-> "", d |-> 0, p |-> newParser(<<>>),
     section |-> <<>>, epoch |-> 0, size |-> 0, list |-> <<>>, owner |-> <<>>,
     key |-> NoKey, val |-> <<>>, err |-> "", queued |-> <<>>,
     last |-> [op |-> "", d |-> 0, err |-> ""]]

\* No thread has called the manager.
LoadIdle ==
    /\ ds = <<>>
    /\ sources = <<>>
    /\ futures = <<>>
    /\ batch = FALSE
    /\ mutex = NoThread
    /\ epoch = 0
    /\ th = [t \in Threads |-> IdleThread]

\* A thread may begin a call.
MayCall(t) ==
    /\ th[t].pc = "idle"
    /\ th["t1"].n + th["t2"].n < MaxLoadCalls

\* The call op of thread t returns the error e to its caller.
Returned(t, op, e) ==
    [th[t] EXCEPT !.pc = "idle", !.err = "",
                  !.last = [op |-> op, d |-> th[t].d, err |-> e]]

\* dataSource.Lock or Unlock on every source in list.
SetLocks(list, v) ==
    [i \in 1..Len(ds) |-> IF SliceContains(list, i) THEN [ds[i] EXCEPT !.lock = v]
                           ELSE ds[i]]

\* Manager.Batch: the flag is swapped to true; the call that found it false
\* will set it back. The thread is then in fn.
BatchCall(t) ==
    /\ MayCall(t)
    /\ Len(th[t].owner) < MaxBatchDepth
    /\ batch' = TRUE
    /\ th' = [th EXCEPT ![t].n = @ + 1, ![t].owner = Append(@, ~batch),
                        ![t].queued = IF th[t].owner = <<>> THEN <<>> ELSE @]
    /\ UNCHANGED <<regVars, tVars, pVars, ds, sources, futures, mutex, epoch>>

\* Manager.Batch: fn has returned; the deferred swap to false runs in the
\* call that found the flag false.
BatchReturn(t) ==
    /\ th[t].pc = "idle"
    /\ th[t].owner # <<>>
    /\ batch' = IF th[t].owner[Len(th[t].owner)] THEN FALSE ELSE batch
    /\ th' = [th EXCEPT ![t] = [Returned(t, "Batch", th[t].last.err)
                                  EXCEPT !.owner = Slice(@, 0, Len(@) - 1)]]
    /\ UNCHANGED <<regVars, tVars, pVars, ds, sources, futures, mutex, epoch>>

\* Manager.Append(source): append puts a new dataSource on futures.
AppendCall(t, src) ==
    /\ MayCall(t)
    /\ ds' = Append(ds, src)
    /\ futures' = Append(futures, Len(ds) + 1)
    /\ th' = [th EXCEPT ![t].n = @ + 1, ![t].op = "Append", ![t].d = Len(ds) + 1,
                        ![t].pc = "batchLoad",
                        ![t].queued = IF th[t].owner # <<>> THEN Append(@, Len(ds) + 1)
                                      ELSE @]
    /\ UNCHANGED <<regVars, tVars, pVars, sources, batch, mutex, epoch>>

\* Manager.Append: with the batch flag set nil is returned, else flush runs.
BatchLoad(t) ==
    /\ th[t].pc = "batchLoad"
    /\ th' = [th EXCEPT ![t] = IF batch THEN Returned(t, "Append", "")
                               ELSE [th[t] EXCEPT !.pc = "flush"]]
    /\ UNCHANGED <<regVars, tVars, pVars, ds, sources, futures, batch, mutex, epoch>>

\* Manager.flush: every loaded source is flagged locked.
FlushLock(t) ==
    /\ th[t].pc = "flush"
    /\ ds' = SetLocks(sources, 1)
    /\ th' = [th EXCEPT ![t].pc = "futures"]
    /\ UNCHANGED <<regVars, tVars, pVars, sources, futures, batch, mutex, epoch>>

\* dataSource.reload of ds[d] up to parse: next is where the thread goes on
\* when reload returns nil with no parse, fail when it returns the error.
Reload_Open(t, d, next, fail) ==
    IF ds[d].lock = 1 THEN [th[t] EXCEPT !.pc = next, !.d = d]
    ELSE IF ds[d].kind = "path"
    THEN (IF options.Loose THEN [th[t] EXCEPT !.pc = next, !.d = d]
          ELSE [th[t] EXCEPT !.pc = fail, !.d = d, !.err = "no such file"])
    ELSE [th[t] EXCEPT !.pc = "parseBegin", !.d = d,
                       !.p = BOM(newParser(ds[d].bytes)), !.section = <<>>]

\* Manager.flush: the first of futures is reloaded.
FlushOpen(t) ==
    /\ th[t].pc = "futures"
    /\ futures # <<>>
    /\ th' = [th EXCEPT ![t] = Reload_Open(t, futures[1], "loaded", "flushFail")]
    /\ UNCHANGED <<regVars, tVars, pVars, ds, sources, futures, batch, mutex, epoch>>

\* Manager.flush: the source reloaded is flagged locked, futures loses its
\* first element and sources gains the source; futures[1:] of an empty slice
\* panics.
FlushLoaded(t) ==
    /\ th[t].pc = "loaded"
    /\ IF futures = <<>>
       THEN /\ th' = [th EXCEPT ![t].pc = "panic"]
            /\ ds' = SetLocks(<<th[t].d>>, 1)
            /\ UNCHANGED <<sources, futures>>
       ELSE /\ th' = [th EXCEPT ![t].pc = "futures"]
            /\ ds' = SetLocks(<<th[t].d>>, 1)
            /\ futures' = Tail(futures)
            /\ sources' = Append(sources, th[t].d)
    /\ UNCHANGED <<regVars, tVars, pVars, batch, mutex, epoch>>

\* Manager.flush returns: nil when futures is empty, the error of a reload
\* else; the deferred loop takes the flag off every loaded source.
FlushReturn(t) ==
    /\ \/ th[t].pc = "futures" /\ futures = <<>>
       \/ th[t].pc = "flushFail"
    /\ ds' = SetLocks(sources, 0)
    /\ th' = [th EXCEPT ![t] = Returned(t, "Append", th[t].err)]
    /\ UNCHANGED <<regVars, tVars, pVars, sources, futures, batch, mutex, epoch>>

\* The registry as a thread sees it whose section Reload has cleared: the
\* section is one the registry does not hold.
OrphanView(t) ==
    [list |-> sectionList,
     secs |-> Put(sections, th[t].section, newSection(th[t].section))]

\* Manager.parse, one turn of the loop in thread t. What is written to a
\* cleared section is not in the registry; a header registers its section
\* whatever the thread's section is.
loadLineOf(t, valid, o) ==
    IF valid THEN o
    ELSE IF o.decl # <<>> /\ o.decl[1].kind = "section"
    THEN parseLine(options, th[t].p, Registry, th[t].section, th[t].size)
    ELSE [o EXCEPT !.reg = Registry]

loadLine(t) ==
    loadLineOf(t, th[t].epoch = epoch,
               parseLine(options, th[t].p,
                         IF th[t].epoch = epoch THEN Registry ELSE OrphanView(t),
                         th[t].section, th[t].size))

\* Manager.mutex.Lock, where the code calls it: in NewSection at the start
\* of parse, in NewSection or NewKey for a line that declares, in Reload and
\* in SetValue. The lock is not reentrant.
DeclaringLine(t) ==
    /\ th[t].pc = "line"
    /\ ~th[t].p.isEOF
    /\ loadLine(t).decl # <<>>

Lock(t) ==
    /\ \/ th[t].pc \in {"parseBegin", "reloadLock", "setValue"}
       \/ DeclaringLine(t)
    /\ mutex = NoThread
    /\ mutex' = t
    /\ th' = [th EXCEPT ![t].pc = CASE @ = "parseBegin" -> "parseBeginLocked"
                                    [] @ = "reloadLock" -> "reloadClear"
                                    [] @ = "setValue" -> "setValueLocked"
                                    [] @ = "line" -> "lineLocked"]
    /\ UNCHANGED <<regVars, tVars, pVars, ds, sources, futures, batch, epoch>>

\* Manager.parse up to the loop, in a thread: NewSection of the default
\* section under the lock.
LoadParseBegin(t) ==
    /\ th[t].pc = "parseBeginLocked"
    /\ mutex = t
    /\ LET ns == NewSection(options, Registry, <<>>)
       IN  /\ sectionList' = ns.reg.list
           /\ sections' = ns.reg.secs
           /\ th' = [th EXCEPT ![t].pc = "line", ![t].section = ns.name,
                               ![t].epoch = epoch,
                               ![t].size = IF options.AllowPythonMultilineValues
                                           THEN Len(Peek(th[t].p, minReaderBufferSize))
                                           ELSE 0]
    /\ mutex' = NoThread
    /\ UNCHANGED <<options, tVars, pVars, ds, sources, futures, batch, epoch>>

\* What one turn of the loop leaves in a thread: on an error reload returns
\* it, to flush or to Reload.
LoadLineReturns(t, out) ==
    /\ sectionList' = out.reg.list
    /\ sections' = out.reg.secs
    /\ th' = [th EXCEPT ![t].p = out.p, ![t].section = out.section,
                        ![t].epoch = IF out.decl # <<>> /\ out.decl[1].kind = "section"
                                     THEN epoch ELSE @,
                        ![t].err = out.err,
                        ![t].pc = IF out.err = "" THEN "line"
                                  ELSE IF th[t].op = "Append" THEN "flushFail"
                                  ELSE "reloadFail"]

\* Manager.parse, one turn of the loop on a line that calls neither
\* NewSection nor NewKey.
LoadLine(t) ==
    /\ th[t].pc = "line"
    /\ ~th[t].p.isEOF
    /\ ~DeclaringLine(t)
    /\ LoadLineReturns(t, loadLine(t))
    /\ UNCHANGED <<options, tVars, pVars, ds, sources, futures, batch, mutex, epoch>>

\* Manager.parse, one turn of the loop on a line that declares a section or a
\* key, under the lock of NewSection or NewKey.
LoadLineLocked(t) ==
    /\ th[t].pc = "lineLocked"
    /\ mutex = t
    /\ LoadLineReturns(t, loadLine(t))
    /\ mutex' = NoThread
    /\ UNCHANGED <<options, tVars, pVars, ds, sources, futures, batch, epoch>>

\* Manager.parse, the loop ends: reload returns nil, to flush or to Reload.
LoadParseEnd(t) ==
    /\ th[t].pc = "line"
    /\ th[t].p.isEOF
    /\ th' = [th EXCEPT ![t].pc = IF th[t].op = "Append" THEN "loaded" ELSE "range"]
    /\ UNCHANGED <<regVars, tVars, pVars, ds, sources, futures, batch, mutex, epoch>>

\* Manager.Reload is called.
ReloadCall(t) ==
    /\ MayCall(t)
    /\ th' = [th EXCEPT ![t].n = @ + 1, ![t].op = "Reload", ![t].pc = "reloadLock"]
    /\ UNCHANGED <<regVars, tVars, pVars, ds, sources, futures, batch, mutex, epoch>>

\* Manager.Reload: under the lock the sections are cleared; the loop will
\* range over the sources there are now.
ReloadClear(t) ==
    /\ th[t].pc = "reloadClear"
    /\ mutex = t
    /\ sections' = EmptyMap
    /\ sectionList' = <<>>
    /\ epoch' = epoch + 1
    /\ th' = [th EXCEPT ![t].pc = "range", ![t].list = sources]
    /\ UNCHANGED <<options, tVars, pVars, ds, sources, futures, batch, mutex>>

\* Manager.Reload: the next source is reloaded.
ReloadOpen(t) ==
    /\ th[t].pc = "range"
    /\ th[t].list # <<>>
    /\ th' = [th EXCEPT ![t] = [Reload_Open(t, Head(th[t].list), "range", "reloadFail")
                                  EXCEPT !.list = Tail(@)]]
    /\ UNCHANGED <<regVars, tVars, pVars, ds, sources, futures, batch, mutex, epoch>>

\* Manager.Reload returns: nil after the last source, the error of a reload
\* else; the deferred Unlock runs.
ReloadReturn(t) ==
    /\ \/ th[t].pc = "range" /\ th[t].list = <<>>
       \/ th[t].pc = "reloadFail"
    /\ mutex' = IF mutex = t THEN NoThread ELSE mutex
    /\ th' = [th EXCEPT ![t] = Returned(t, "Reload", th[t].err)]
    /\ UNCHANGED <<regVars, tVars, pVars, ds, sources, futures, batch, epoch>>

\* The key k is in the registry.
Registered(k) ==
    /\ k.ok
    /\ k.s \in DOMAIN sections
    /\ k.name \in DOMAIN sections[k.s].keys

\* Key.SetValue(v) is called on a key of the registry.
SetValueCall(t, k, v) ==
    /\ MayCall(t)
    /\ Registered(k)
    /\ th' = [th EXCEPT ![t].n = @ + 1, ![t].op = "SetValue", ![t].pc = "setValue",
                        ![t].key = k, ![t].val = v, ![t].epoch = epoch]
    /\ UNCHANGED <<regVars, tVars, pVars, ds, sources, futures, batch, mutex, epoch>>

\* Key.SetValue: under the lock the value and the keysHash entry are written.
\* The write to a key that Reload has cleared is not in the registry.
SetValueWrite(t) ==
    /\ th[t].pc = "setValueLocked"
    /\ mutex = t
    /\ sections' = IF th[t].epoch = epoch
                   THEN [sections EXCEPT
                           ![th[t].key.s].keys[th[t].key.name].value = th[t].val,
                           ![th[t].key.s].keysHash[th[t].key.name] = th[t].val]
                   ELSE sections
    /\ mutex' = NoThread
    /\ th' = [th EXCEPT ![t] = Returned(t, "SetValue", "")]
    /\ UNCHANGED <<options, sectionList, tVars, pVars, ds, sources, futures, batch, epoch>>

\* Key.MustString(defaultVal) is called on a key of the registry: val is
\* what String returns; a val that is not empty is returned.
MustStringCall(t, k, defaultVal) ==
    /\ MayCall(t)
    /\ Registered(k)
    /\ th' = [th EXCEPT ![t] = IF Len(transformValue(k)) = 0
                               THEN [th[t] EXCEPT !.n = @ + 1, !.op = "MustString",
                                                  !.pc = "mustWrite", !.key = k,
                                                  !.val = defaultVal, !.epoch = epoch]
                               ELSE [Returned(t, "MustString", "") EXCEPT !.n = @ + 1]]
    /\ UNCHANGED <<regVars, tVars, pVars, ds, sources, futures, batch, mutex, epoch>>

\* Key.MustString: k.value = defaultVal, with no lock taken.
MustStringWrite(t) ==
    /\ th[t].pc = "mustWrite"
    /\ sections' = IF th[t].epoch = epoch
                   THEN [sections EXCEPT
                           ![th[t].key.s].keys[th[t].key.name].value = th[t].val]
                   ELSE sections
    /\ th' = [th EXCEPT ![t] = Returned(t, "MustString", "")]
    /\ UNCHANGED <<options, sectionList, tVars, pVars, ds, sources, futures, batch,
                   mutex, epoch>>

----------------------------------------------------------------------------
(* Reading resolved values: a registry of the default section and of the   *)
(* section "s", whose keys hold values with reference and environment      *)
(* markers, is read with Key.String.                                       *)

Ref(name) == <<"%", "(">> \o name \o <<")", "s">>

EnvMarker(name, op, def) == <<"$", "{">> \o name \o op \o def \o <<"}">>

RECURSIVE Rep(_, _)
Rep(s, n) == IF n = 0 THEN <<>> ELSE s \o Rep(s, n - 1)

NameA == <<"a">>
NameB == <<"b">>
NameC == <<"c">>
NameMissing == <<"n">>
NameFoo == <<"F", "O", "O">>

\* The operators of an environment marker and the default texts after them.
EnvOps == {<<>>, <<"|", "|">>, <<"?", "?">>}
\* text is what the marker holds, means the default it gives.
EnvDefaults == {[text |-> <<"d">>, means |-> <<"d">>],
                [text |-> <<" ", "'", "q", "'">>, means |-> <<"q">>]}
NoDefault == [text |-> <<>>, means |-> <<>>]
EnvMarkers ==
    {EnvMarker(NameFoo, <<>>, <<>>)}
        \cup {EnvMarker(NameFoo, op, d.text) : op \in EnvOps \ {<<>>}, d \in EnvDefaults}

\* The raw values of the keys.
RefValues ==
    {Ref(NameA),
     Ref(NameB) \o <<"/", "b">>,
     Ref(NameMissing) \o Ref(NameB),
     <<"x">> \o Ref(NameA)}
PlainValues == {<<"/", "a">>}
TValues == PlainValues \cup RefValues \cup EnvMarkers
        \cup {<<"p">> \o m \o m : m \in {EnvMarker(NameFoo, <<"|", "|">>, <<"d">>)}}
\* A run of one marker. It names the key c of "s", whose value is plain: a
\* run inside a reference cycle doubles the value with every loop body, and
\* the model keeps values of a length it can hold.
RepValues == {Rep(Ref(NameC), n) : n \in 2..MaxRepeat}

\* The values of FOO in the environment; Unset is no value.
Unset == <<"unset">>
EnvValues == {Unset, <<>>, <<"v">>, EnvMarker(NameFoo, <<>>, <<>>)}

\* A section of the given keys: keys maps each name of keyList to its value.
SectionOf(name, keyList, vals) ==
    [name |-> name,
     keys |-> [k \in {keyList[i] : i \in 1..Len(keyList)} |-> newKey(k, vals[k])],
     keyList |-> keyList,
     keysHash |-> [k \in {keyList[i] : i \in 1..Len(keyList)} |-> vals[k]],
     Comment |-> <<>>]

\* The keys of a section that are registered.
KeysOf(sname) == {KeyRef(sname, sections[sname].keyList[i]) :
                    i \in 1..Len(sections[sname].keyList)}

AllKeys == UNION {KeysOf(sectionList[i]) : i \in 1..Len(sectionList)}

\* No key of that name.
Absent == <<"absent">>

\* The keys among names that have a value, in the order of names.
Present(names, vals) == SelectSeq(names, LAMBDA k : vals[k] # Absent)

InitTransform ==
    /\ options = DefaultOptions
    /\ sectionList = <<<<>>, <<"s">>>>
    /\ \E da \in {Absent, <<"/", "a">>, <<"x">> \o Ref(NameA), Ref(NameB)},
          db \in {Absent, Ref(NameA)},
          sa \in TValues \cup RepValues,
          sb \in {Absent, <<"/", "a">>, Ref(NameA),
                  EnvMarker(NameFoo, <<"|", "|">>, <<"d">>)} :
          LET dv == [k \in {NameA, NameB} |-> IF k = NameA THEN da ELSE db]
              sv == [k \in {NameA, NameB, NameC} |->
                       IF k = NameA THEN sa ELSE IF k = NameB THEN sb ELSE <<"/", "c">>]
          IN  /\ sections = [n \in {<<>>, <<"s">>} |->
                               IF n = <<>>
                               THEN SectionOf(n, Present(<<NameA, NameB>>, dv), dv)
                               ELSE SectionOf(n, Present(<<NameA, NameB, NameC>>, sv), sv)]
              \* The environment matters to a registry only when a value reads it.
              /\ \E v \in IF Contains(sa, <<"$">>) \/ Contains(sb, <<"$">>)
                          THEN EnvValues ELSE {Unset} :
                    environ = IF v = Unset THEN EmptyMap ELSE [k \in {NameFoo} |-> v]
    /\ tpc = "idle"
    /\ tkey = NoKey
    /\ tval = <<>>
    /\ refCount = 0
    /\ envCount = 0
    /\ tvr = <<>>
    /\ ParserIdle
    /\ LoadIdle

NextTransform ==
    \/ \E k \in AllKeys : String(k)
    \/ ReferenceStep
    \/ ReferenceEnd
    \/ EnvironmentStep
    \/ EnvironmentEnd

SpecTransform == InitTransform /\ [][NextTransform]_vars

----------------------------------------------------------------------------
(* Parsing one source into a new manager.                                  *)

NameS == <<"s">>

\* The lines of the sources: a section header, key lines that declare a name
\* twice, the automatic name, a name with no delimiter, a comment, and the
\* lines the parser gives an error for.
Lines ==
    { <<"[", "s", "]">>,
      <<"a", "=", "1">>,
      <<"a", "=", "2">>,
      <<"-", "=", "1">>,
      <<"b">>,
      <<"#", "c">>,
      <<"[", "s">>,
      <<"=", "1">>,
      <<Backquote, "a">>,
      <<"a", "=", Backquote, "1">> }

\* The lines, each ended by a line break.
RECURSIVE JoinLines(_)
JoinLines(ls) ==
    IF ls = <<>> THEN <<>> ELSE Head(ls) \o <<"\n">> \o JoinLines(Tail(ls))

Sources == {JoinLines(ls) : ls \in UNION {[1..n -> Lines] : n \in 0..MaxLines}}

\* No value is being read.
TransformIdle ==
    /\ environ = EmptyMap
    /\ tpc = "idle"
    /\ tkey = NoKey
    /\ tval = <<>>
    /\ refCount = 0
    /\ envCount = 0
    /\ tvr = <<>>

\* New, and a source to parse.
Init ==
    /\ options = DefaultOptions
    /\ sectionList = <<>>
    /\ sections = EmptyMap
    /\ TransformIdle
    /\ reader \in Sources
    /\ parser = newParser(<<>>)
    /\ section = <<>>
    /\ parserBufferSize = 0
    /\ ppc = "idle"
    /\ err = ""
    /\ before = [list |-> <<>>, secs |-> EmptyMap]
    /\ declared = <<>>
    /\ calls = 0
    /\ LoadIdle

Next ==
    \/ ParseBegin
    \/ ParseLine
    \/ ParseEnd
    \/ NewSectionCall(NameS)
    \/ \E sname \in {<<>>, NameS} : NewKeyCall(sname, NameA, <<"0">>)

Spec == Init /\ [][Next]_vars

----------------------------------------------------------------------------
(* Threads that load sources into a new manager and write its keys.        *)

\* The sources the threads append: one key with an empty value, an unclosed
\* section header, and a file that is not there.
LoadSources ==
    { BytesSource(<<"a", "=", "\n">>),
      BytesSource(<<"[", "s", "\n">>),
      MissingFile }

\* New, with Loose set or not, and no source.
InitLoad ==
    /\ options \in {DefaultOptions, [DefaultOptions EXCEPT !.Loose = TRUE]}
    /\ sectionList = <<>>
    /\ sections = EmptyMap
    /\ TransformIdle
    /\ ParserIdle
    /\ LoadIdle

NextLoad ==
    \E t \in Threads :
        \/ BatchCall(t)
        \/ BatchReturn(t)
        \/ \E src \in LoadSources : AppendCall(t, src)
        \/ BatchLoad(t)
        \/ FlushLock(t)
        \/ FlushOpen(t)
        \/ FlushLoaded(t)
        \/ FlushReturn(t)
        \/ Lock(t)
        \/ LoadParseBegin(t)
        \/ LoadLine(t)
        \/ LoadLineLocked(t)
        \/ LoadParseEnd(t)
        \/ ReloadCall(t)
        \/ ReloadClear(t)
        \/ ReloadOpen(t)
        \/ ReloadReturn(t)
        \/ \E k \in {KeyRef(<<>>, NameA)} : SetValueCall(t, k, <<"1">>)
        \/ SetValueWrite(t)
        \/ \E k \in {KeyRef(<<>>, NameA)} : MustStringCall(t, k, <<"x">>)
        \/ MustStringWrite(t)

SpecLoad == InitLoad /\ [][NextLoad]_vars

----------------------------------------------------------------------------
(* Parsing the text of values: comments, quoted values that run over       *)
(* lines, continuation lines, and the byte order marks.                    *)

\* The most lines of a source of TextSources.
MaxTextLines == 3

\* The lines: a comment, a header with a comment after it, values with space
\* around them and with an inline comment, a continued value and the lines it
\* is joined with, values in triple double-quotes and in backquotes that close
\* on their line or on a later one, and an empty line.
TextLines ==
    { <<"#", "c">>,
      <<"[", "s", "]", " ", ";", "h">>,
      <<"a", "=", " ", "x", " ", ";", "i">>,
      <<"a", " ", "=", " ", "x", " ", "y", " ">>,
      <<"a", "=", "x", "\\">>,
      <<" ", "y", "\\">>,
      <<"z">>,
      <<>>,
      <<"a", "=">>,
      <<"b", ":", "x", "=", "1">>,
      <<"a", "=", "\"", "\"", "\"">>,
      <<"b", "=", "\"", "\"", "\"", "p", " ", ";", "#">>,
      <<" ", "q", "'", "\\", "\"", "\"", "\"", " ", ";", "t">>,
      <<"a", "=", Backquote, "p", "#", ";", "'", "\"", "\\", Backquote, ";", "t">>,
      <<"b", "=", "\"", "\"", "\"", "#", "\"", "y", "\"", "\"", "\"">>,
      <<"b", ":", Backquote, "p">>,
      <<"q", Backquote>> }

\* The first bytes of the streams that begin with a byte order mark or with
\* a part of one.
Marks ==
    { <<"FF", "FE">>, <<"FE", "FF">>, <<"EF", "BB", "BF">>,
      <<"EF", "BB">>, <<"EF", "BB", "x">>, <<"FF">>, <<"FE", "x">>, <<"EF", "x", "BF">> }

\* s with its last byte cut.
ChopLast(s) == Slice(s, 0, Len(s) - 1)

\* What follows a mark in the streams that begin with one.
MarkBodies == {<<>>, <<"[", "s", "]">>, <<"x", "\n">>}

\* The stream of the lines ls, the last with its line break or without it.
TextStream(ls, whole) ==
    IF whole \/ ls = <<>> THEN JoinLines(ls) ELSE ChopLast(JoinLines(ls))

\* New, and a stream to parse: up to MaxTextLines lines, or a mark and what
\* follows it.
InitText ==
    /\ options = DefaultOptions
    /\ sectionList = <<>>
    /\ sections = EmptyMap
    /\ TransformIdle
    /\ \/ \E n \in 0..MaxTextLines : \E ls \in [1..n -> TextLines], whole \in BOOLEAN :
             reader = TextStream(ls, whole)
       \/ \E m \in Marks, body \in MarkBodies : reader = m \o body
    /\ parser = newParser(<<>>)
    /\ section = <<>>
    /\ parserBufferSize = 0
    /\ ppc = "idle"
    /\ err = ""
    /\ before = [list |-> <<>>, secs |-> EmptyMap]
    /\ declared = <<>>
    /\ calls = 0
    /\ LoadIdle

NextText ==
    \/ ParseBegin
    \/ ParseLine
    \/ ParseEnd

SpecText == InitText /\ [][NextText]_vars

----------------------------------------------------------------------------
(* Parsing under one option set at a time: inline comments and quoted key  *)
(* names, indented lines in Python-multiline mode, and automatic names.    *)

\* The most lines of a source of a suite.
MaxSuiteLines == 4

\* A suite is an option set and the lines its sources are made of: values
\* with inline comment marks, escaped and not, and key lines that open with
\* a double quote; a value followed by indented lines, with
\* AllowPythonMultilineValues set; and headers and "-" key lines.
Suites ==
    { [opts |-> DefaultOptions,
       lines |-> { <<"a", "=", "x", "\\", "#", "y">>,
                   <<"a", "=", "x", " ", ";", "y", "#", "z">>,
                   <<"b", "=", "x", "\\", ";", "y">>,
                   <<"\"", "a", "\"", "=", "1">>,
                   <<"\"", "b", "=", "1">>,
                   <<"#", "c">> }],
      [opts |-> [DefaultOptions EXCEPT !.AllowPythonMultilineValues = TRUE],
       lines |-> { <<"a", "=", "x">>,
                   <<" ", "y">>,
                   <<"\t", "z">>,
                   <<"b", "=", "1">>,
                   <<"[", "s", "]">>,
                   <<>> }],
      [opts |-> DefaultOptions,
       lines |-> { <<"[", "s", "]">>,
                   <<"[", "t", "]">>,
                   <<"-", "=", "1">>,
                   <<"-", "=", "2">> }] }

\* A value followed by one indented line that is longer than the buffer of
\* the reader.
LongValue ==
    <<"a", "=", "x", "\n", " ">> \o [i \in 1..minReaderBufferSize + 4 |-> "y"] \o <<"\n">>

\* New with the options of a suite, and a stream of its lines to parse.
InitLines ==
    /\ \E suite \in Suites :
          /\ options = suite.opts
          /\ \/ \E n \in 0..MaxSuiteLines : \E ls \in [1..n -> suite.lines], whole \in BOOLEAN :
                   reader = TextStream(ls, whole)
             \/ /\ suite.opts.AllowPythonMultilineValues
                /\ reader = LongValue
    /\ sectionList = <<>>
    /\ sections = EmptyMap
    /\ TransformIdle
    /\ parser = newParser(<<>>)
    /\ section = <<>>
    /\ parserBufferSize = 0
    /\ ppc = "idle"
    /\ err = ""
    /\ before = [list |-> <<>>, secs |-> EmptyMap]
    /\ declared = <<>>
    /\ calls = 0
    /\ LoadIdle

NextLines ==
    \/ ParseBegin
    \/ ParseLine
    \/ ParseEnd

SpecLines == InitLines /\ [][NextLines]_vars

----------------------------------------------------------------------------
(* Properties of reading resolved values.                                  *)

\* A step of a read enters one more loop body or leaves a stage.
ReadProgress ==
    tpc \in {"ref", "env"} =>
        \/ refCount' + envCount' = refCount + envCount + 1
        \/ (tpc = "ref" /\ tpc' \in {"env", "done"})
        \/ (tpc = "env" /\ tpc' = "done")

\* C1: reading a key's resolved value with String terminates, cyclic
\* references included: neither substitution stage ever has entered more than
\* 99 loop bodies, and every step of a read either enters one more loop body
\* or leaves a stage, so a read returns after at most 2 * 99 + 2 steps.
C1_ReadTerminates ==
    [][/\ refCount' <= depthValues
       /\ envCount' <= depthValues
       /\ ReadProgress]_vars

\* The read of a, with a=%(b)s and b=%(a)s in the default section, has
\* returned after 99 bodies of the reference loop.
C1_Witness ==
    /\ tpc = "done"
    /\ tkey = KeyRef(<<>>, NameA)
    /\ NameB \in DOMAIN sections[<<>>].keys
    /\ ValueOf(tkey) = Ref(NameB)
    /\ ValueOf(KeyRef(<<>>, NameB)) = Ref(NameA)
    /\ refCount = depthValues

\* The key called name in the section of k, when it is another key than k
\* and its raw value holds no "%".
PlainSibling(k, name) ==
    /\ name # k.name
    /\ name \in DOMAIN sections[k.s].keys
    /\ ~Contains(sections[k.s].keys[name].value, <<"%">>)

\* C2 as stated: a read of a key whose raw value contains the marker of a
\* plain sibling returns the raw value with the marker replaced by the
\* sibling's raw value.
C2_AsStated ==
    tpc = "done" =>
        \A name \in {NameA, NameB, NameC} :
            LET raw == ValueOf(tkey)
            IN  (Contains(raw, Ref(name)) /\ PlainSibling(tkey, name))
                    => tval = Replace(raw, Ref(name),
                                      sections[tkey.s].keys[name].value)

\* C2, amended: the same, for a raw value whose every "%" starts that marker
\* and with no "$" in the raw value or in the sibling's value.
C2_ReferenceResolved ==
    tpc = "done" =>
        \A name \in {NameA, NameB, NameC} :
            LET raw == ValueOf(tkey)
                sibling == sections[tkey.s].keys[name].value
            IN  (/\ Contains(raw, Ref(name))
                 /\ PlainSibling(tkey, name)
                 /\ ~Contains(Replace(raw, Ref(name), <<>>), <<"%">>)
                 /\ ~Contains(raw, <<"$">>)
                 /\ ~Contains(sibling, <<"$">>))
                    => tval = Replace(raw, Ref(name), sibling)

\* sub=%(root)s/b and root=/a in one section (here a and b of "s"): the read
\* of sub has returned /a/b.
C2_Witness ==
    /\ tpc = "done"
    /\ tkey = KeyRef(<<"s">>, NameA)
    /\ ValueOf(tkey) = Ref(NameB) \o <<"/", "b">>
    /\ PlainSibling(tkey, NameB)
    /\ tval = <<"/", "a", "/", "b">>

\* What the resolution rule gives for the marker ${name op d}.
EnvExpected(name, op, d) ==
    IF name \notin DOMAIN environ THEN d.means
    ELSE IF environ[name] = <<>>
         THEN (IF op = <<"?", "?">> THEN <<>> ELSE d.means)
         ELSE environ[name]

\* A loop body of the environment stage on a marker of FOO replaces it as
\* the rule says.
EnvBodyAsRuled ==
    \A op \in EnvOps : \A d \in (IF op = <<>> THEN {NoDefault} ELSE EnvDefaults) :
        LET m == EnvMarker(NameFoo, op, d.text)
        IN  (tpc = "env" /\ envCount' = envCount + 1
               /\ envPattern_FindString(tval) = m)
               => tval' = Replace(tval, m, EnvExpected(NameFoo, op, d))

\* C3: the loop body of the environment stage that matches ${NAME},
\* ${NAME||d} or ${NAME??d} replaces it by d when NAME is unset, by d under ||
\* and by the empty string under ?? when NAME is set to the empty string, and
\* by NAME's value when that is not empty.
C3_EnvResolution ==
    [][EnvBodyAsRuled]_vars

\* The first loop body of a read of ${FOO??d}, with FOO set to the empty
\* string, has replaced the marker by the empty string.
C3_Witness ==
    /\ tpc = "env"
    /\ envCount = 1
    /\ ValueOf(tkey) = EnvMarker(NameFoo, <<"?", "?">>, <<"d">>)
    /\ NameFoo \in DOMAIN environ
    /\ environ[NameFoo] = <<>>
    /\ tvr = EnvMarker(NameFoo, <<"?", "?">>, <<"d">>)
    /\ tval = <<>>

----------------------------------------------------------------------------
(* Properties of declaring keys and of parsing.                            *)

\* The declarations of keys: key lines, lines with no delimiter, NewKey.
IsKeyDeclaration(d) == d.kind \in {"key", "bool", "NewKey"}

\* The first declaration of the key that declaration i declares.
FirstDeclaration(i) ==
    LET same == {j \in 1..i : /\ IsKeyDeclaration(declared[j])
                              /\ declared[j].s = declared[i].s
                              /\ declared[j].name = declared[i].name}
    IN  CHOOSE j \in same : \A k \in same : j <= k

\* How often name is in list.
Occurrences(list, name) == Cardinality({i \in 1..Len(list) : list[i] = name})

\* C4: first-write-wins. However often a name is declared in a section, by
\* key lines or by NewKey, with whatever lines in between, the key's raw
\* value is the value of the first declaration and the section's key list
\* holds the name exactly once.
C4_FirstWriteWins ==
    \A i \in 1..Len(declared) :
        IsKeyDeclaration(declared[i]) =>
            LET d == declared[i]
                sec == sections[d.s]
            IN  /\ d.name \in DOMAIN sec.keys
                /\ sec.keys[d.name].value = declared[FirstDeclaration(i)].value
                /\ Occurrences(sec.keyList, d.name) = 1

\* A parse is over in which a name was declared with one value, then another
\* declaration was made, then the name was declared with another value.
C4_Witness ==
    /\ ppc = "done"
    /\ \E i, j \in 1..Len(declared) :
          /\ j > i + 1
          /\ declared[i].kind = "key" /\ declared[j].kind = "key"
          /\ declared[i].s = declared[j].s
          /\ declared[i].name = declared[j].name
          /\ declared[i].value # declared[j].value
          /\ sections[declared[i].s].keys[declared[i].name].value = declared[i].value

\* The key lines declared as "-" before declaration i and after the last
\* section header before it.
AutoLinesBefore(i) ==
    {j \in 1..(i - 1) :
        /\ declared[j].kind = "key"
        /\ declared[j].declared = <<"-">>
        /\ \A k \in (j + 1)..(i - 1) : declared[k].kind # "section"}

\* C5: in one parse a key line declared as "-" is stored as "#n", n being 1
\* plus the number of "-" key lines since the last section header or the
\* start; the counter is that number plus 1 after every line, so a header
\* sets it to 1 and no other line changes it.
C5_AutoIncrement ==
    /\ \A i \in 1..Len(declared) :
          (declared[i].kind = "key" /\ declared[i].declared = <<"-">>) =>
              /\ declared[i].name = <<"#">> \o Itoa(1 + Cardinality(AutoLinesBefore(i)))
              /\ declared[i].name \in DOMAIN sections[declared[i].s].keys
    /\ ppc \in {"lines", "done"} =>
          parser.count = 1 + Cardinality(AutoLinesBefore(Len(declared) + 1))

\* Two "-" lines were stored as "#1" and "#2" and a section header then set
\* the counter to 1.
C5_Witness ==
    /\ Len(declared) = 3
    /\ declared[1].declared = <<"-">> /\ declared[1].name = <<"#", "1">>
    /\ declared[2].declared = <<"-">> /\ declared[2].name = <<"#", "2">>
    /\ declared[3].kind = "section"
    /\ sections[<<>>].keyList = <<<<"#", "1">>, <<"#", "2">>>>
    /\ parser.count = 1

\* C6: a parse that returns a structural error leaves the sections, their key
\* lists and the values as they were when the parse began.
C6_AllOrNothing ==
    ppc = "failed" =>
        /\ sectionList = before.list
        /\ \A n \in DOMAIN sections :
              /\ n \in DOMAIN before.secs
              /\ sections[n].keyList = before.secs[n].keyList
              /\ \A k \in DOMAIN sections[n].keys :
                    sections[n].keys[k].value = before.secs[n].keys[k].value

----------------------------------------------------------------------------
(* Properties of loading.                                                  *)

\* No thread but t has called the manager.
Alone(t) == \A u \in Threads \ {t} : th[u].n = 0

\* Thread t is in Manager.parse.
Parsing(t) == th[t].pc \in {"parseBegin", "parseBeginLocked", "line", "lineLocked"}

\* The source at place d of ds has been loaded: it is in sources and the key
\* of a source of bytes that holds the line a= is in the registry.
IsLoaded(d) ==
    /\ SliceContains(sources, d)
    /\ ds[d].bytes = <<"a", "=", "\n">> => Registered(KeyRef(<<>>, NameA))

\* C7: while a thread is in Batch, an Append it makes in fn only queues its
\* source and parses nothing; when Batch has returned, futures is empty and
\* the sources queued are loaded.
C7_BatchLoadsOnReturn ==
    \A t \in Threads :
        Alone(t) =>
            /\ th[t].owner # <<>> => ~Parsing(t) /\ sources = <<>>
            /\ (th[t].pc = "idle" /\ th[t].owner = <<>> /\ th[t].last.op = "Batch"
                    /\ th[t].queued # <<>>)
                  => /\ futures = <<>>
                     /\ \A i \in 1..Len(th[t].queued) : IsLoaded(th[t].queued[i])

\* What C8 speaks of: the sections there are, the keys of each and the raw
\* value of every key.
ValueState ==
    [list |-> sectionList,
     secs |-> [n \in DOMAIN sections |->
                 [keyList |-> sections[n].keyList,
                  value |-> [k \in DOMAIN sections[n].keys |->
                               sections[n].keys[k].value]]]]

\* C8: a step of a thread that creates a section or a key or changes a key's
\* raw value is taken while that thread holds the manager's exclusive lock.
C8_WritesUnderLock ==
    [][\A t \in Threads : (th'[t] # th[t] /\ ValueState' # ValueState) => mutex = t]_vars

\* C9: of every source at most one load, an Open that succeeded and the parse
\* after it, is in progress at any time.
C9_OneLoadPerSource ==
    \A d \in 1..Len(ds) :
        Cardinality({t \in Threads : Parsing(t) /\ th[t].d = d}) <= 1

\* C10: the Append of a file that is not there, the first call on the manager:
\* with Loose it returns nil and the registry holds the default section, with
\* no key; without Loose it returns the error.
C10_LooseMissingFile ==
    \A t \in Threads :
        (/\ Alone(t)
         /\ th[t].n = 1
         /\ th[t].pc = "idle"
         /\ th[t].last.op = "Append"
         /\ ds[th[t].last.d].kind = "path")
            => IF options.Loose
               THEN /\ th[t].last.err = ""
                    /\ GetSection(<<>>).ok
                    /\ GetSection(<<>>).sec.keyList = <<>>
               ELSE th[t].last.err # ""

----------------------------------------------------------------------------
(* Properties of the text of comments and values.                          *)

\* A step of Manager.parse that reads a line.
LineStep == ppc = "lines" /\ ~parser.isEOF /\ parser' # parser

\* The step has completed a section header or a key.
Completes == LineStep /\ declared' # declared

\* The sections and keys there are.
Entities ==
    {[kind |-> "section", s |-> n, name |-> <<>>] : n \in DOMAIN sections}
      \cup UNION {{[kind |-> "key", s |-> n, name |-> k] : k \in DOMAIN sections[n].keys} :
                    n \in DOMAIN sections}

\* The comment of a section or key, and its comment after the step.
CommentOf(e) ==
    IF e.kind = "section" THEN sections[e.s].Comment
    ELSE sections[e.s].keys[e.name].Comment

CommentAfter(e) ==
    IF e.kind = "section" THEN sections'[e.s].Comment
    ELSE sections'[e.s].keys[e.name].Comment

\* The section or key the step completes.
Completed ==
    LET d == declared'[Len(declared')]
    IN  [kind |-> IF d.kind = "section" THEN "section" ELSE "key", s |-> d.s, name |-> d.name]

\* C11: right after a section header or a key line is handled the comment
\* accumulator is empty; the comment text accumulated before the line is
\* attached to the section or key the line completes and to no other, whose
\* comments stay as they are; a step that completes nothing, the end of the
\* stream included, attaches no comment.
C11_CommentDrained ==
    [][/\ Completes =>
            /\ parser'.comment = <<>>
            /\ HasPrefixAt(CommentAfter(Completed), 0, TrimSpace(parser.comment))
            /\ \A e \in Entities \ {Completed} : CommentAfter(e) = CommentOf(e)
       /\ ~Completes => \A e \in Entities : CommentAfter(e) = CommentOf(e)
      ]_vars

\* The stream #c, a= x ;i is parsed: the key a holds the comment line and the
\* inline comment, and the accumulator is empty.
C11_Witness ==
    /\ ppc = "done"
    /\ reader = <<"#", "c", "\n", "a", "=", " ", "x", " ", ";", "i", "\n">>
    /\ sections[<<>>].keys[NameA].Comment = <<"#", "c", "\n", ";", "i">>
    /\ parser.comment = <<>>

\* The line the step reads, without its leading space, and the stream after
\* that line.
StepLine == TrimLeft(ReadBytes(parser.buf))

StepTail == Slice(parser.buf, Len(ReadBytes(parser.buf)), Len(parser.buf))

\* The step reads a key line with a bare key name and a delimiter after it.
BareKeyLine ==
    /\ LineStep
    /\ StepLine # <<>>
    /\ StepLine[1] \notin {"#", ";", "[", "\"", Backquote}
    /\ IndexAny(StepLine, options.KeyValueDelimiters) > 0

\* The text after the first delimiter of the line.
ValueText ==
    Slice(StepLine, IndexAny(StepLine, options.KeyValueDelimiters) + 1, Len(StepLine))

\* The declaration the step makes.
Declared == declared'[Len(declared')]

\* The step declares a key with value v, and a key that is new to its section
\* then has v as its raw value.
DeclaresValue(v) ==
    /\ Completes
    /\ Declared.kind = "key"
    /\ Declared.s = section
    /\ Declared.value = v
    /\ Declared.name \in DOMAIN sections'[section].keys
    /\ Declared.name \notin DOMAIN sections[section].keys
          => sections'[section].keys[Declared.name].value = v

\* A value text with no quote character, no "#" or ";" and no backslash at
\* the end of its trimmed text.
IsPlainText(v) ==
    /\ \A i \in 1..Len(v) : v[i] \notin {"\"", "'", Backquote, "#", ";"}
    /\ TrimSpace(v) # <<>> => TrimSpace(v)[Len(TrimSpace(v))] # "\\"

\* C12: with the default options a key line with a bare key name whose value
\* text is plain declares the key with the value text trimmed of its leading
\* and trailing space, and nothing else changed.
C12_PlainValueTrimmed ==
    [][(BareKeyLine /\ IsPlainText(ValueText)) => DeclaresValue(TrimSpace(ValueText))]_vars

\* The line a = x y , with space around the value, has given a the value x y.
C12_Witness ==
    /\ ppc \in {"lines", "done"}
    /\ options = DefaultOptions
    /\ ReadBytes(reader) = <<"a", " ", "=", " ", "x", " ", "y", " ", "\n">>
    /\ Len(declared) = 1
    /\ declared[1].value = <<"x", " ", "y">>
    /\ sections[<<>>].keys[NameA].value = <<"x", " ", "y">>

\* The quote that opens a value text: a triple double-quote or a backquote,
\* or the empty string.
Opener(text) ==
    IF HasPrefixAt(text, 0, <<"\"", "\"", "\"">>) THEN <<"\"", "\"", "\"">>
    ELSE IF HasPrefixAt(text, 0, <<Backquote>>) THEN <<Backquote>>
    ELSE <<>>

\* The value text of the line without its leading space, its opener, and
\* the text after the opener to the end of the line, line break included.
QuotedText == TrimLeft(ValueText)

StepOpener == Opener(QuotedText)

Interior == Slice(QuotedText, Len(StepOpener), Len(QuotedText))

\* The step reads a key line whose value is opened by a quote that does not
\* close on the line.
OpensMultiline ==
    /\ BareKeyLine
    /\ StepOpener # <<>>
    /\ Index(Interior, StepOpener) = -1

\* The place of the closing delimiter in the stream after the line, when the
\* line that holds it holds it once; -1 when no later line holds one.
CloserAt == Index(StepTail, StepOpener)

CloserLine ==
    LET after == Slice(StepTail, CloserAt, Len(StepTail))
    IN  Slice(StepTail, 0, CloserAt + Len(ReadBytes(after)))

\* C13: a value opened by a triple double-quote or a backquote that does not
\* close on its line is the text after the opener and the later lines as they
\* are, up to the closing delimiter; with no closing delimiter in the rest of
\* the stream the parse fails.
C13_MultilineQuoted ==
    [][OpensMultiline =>
          IF CloserAt = -1 THEN ppc' = "failed" /\ err' # ""
          ELSE LastIndex(CloserLine, StepOpener) = CloserAt
                  => DeclaresValue(Interior \o Slice(StepTail, 0, CloserAt))]_vars

\* The value text of the line, trimmed.
TrimmedText == TrimSpace(ValueText)

\* The step reads a key line whose unquoted value ends in a backslash.
OpensContinuation ==
    /\ BareKeyLine
    /\ ~options.IgnoreContinuation
    /\ TrimmedText # <<>>
    /\ StepOpener = <<>>
    /\ TrimmedText[Len(TrimmedText)] = "\\"

\* val joined with the lines of tail: each line is trimmed and appended; the
\* joining goes on, without the backslash, after a line that ends in one and
\* stops after a line that does not, before an empty line and at the end of
\* the stream.
RECURSIVE Joined(_, _)
Joined(val, tail) ==
    LET line == ReadBytes(tail)
        next == TrimSpace(line)
    IN  IF tail = <<>> \/ next = <<>> THEN val
        ELSE IF next[Len(next)] = "\\"
        THEN Joined(val \o ChopLast(next), Slice(tail, Len(line), Len(tail)))
        ELSE val \o next

\* C14: with continuation enabled, an unquoted value whose trimmed text ends
\* in a backslash is that text without the backslash joined with the lines
\* after it.
C14_Continuation ==
    [][OpensContinuation => DeclaresValue(Joined(ChopLast(TrimmedText), StepTail))]_vars

\* a=x\ followed by y\ and z has given a the value xyz, and the parse is over.
C14_Witness ==
    /\ ppc = "done"
    /\ reader = <<"a", "=", "x", "\\", "\n", " ", "y", "\\", "\n", "z", "\n">>
    /\ Len(declared) = 1
    /\ sections[<<>>].keys[NameA].value = <<"x", "y", "z">>

\* The stream r without the byte order mark it begins with.
StripMark(r) ==
    IF HasPrefixAt(r, 0, <<"FF", "FE">>) \/ HasPrefixAt(r, 0, <<"FE", "FF">>)
    THEN Slice(r, 2, Len(r))
    ELSE IF HasPrefixAt(r, 0, <<"EF", "BB", "BF">>) THEN Slice(r, 3, Len(r))
    ELSE r

\* C15: when a parse begins, the bytes FF FE, FE FF or EF BB BF the stream
\* begins with are consumed and no other byte is; the stream EF BB BF [s]
\* gives the section s.
C15_ByteOrderMark ==
    [][/\ (ppc = "idle" /\ ppc' = "lines") => parser'.buf = StripMark(reader)
       /\ (ppc' = "done" /\ reader = <<"EF", "BB", "BF", "[", "s", "]">>)
             => sectionList' = <<<<>>, NameS>>]_vars

\* The stream EF BB BF [s] is parsed and the section s is registered.
C15_Witness ==
    /\ ppc = "done"
    /\ reader = <<"EF", "BB", "BF", "[", "s", "]">>
    /\ sectionList = <<<<>>, NameS>>
    /\ parser.buf = <<>>

----------------------------------------------------------------------------
(* Properties of markers that cannot be resolved.                          *)

\* C16: the read of a key whose raw value holds the marker ${FOO}, which
\* gives no default, with FOO unset in the environment, returns a string that
\* holds the marker as it was written.
C16_UnresolvedKept ==
    (/\ tpc = "done"
     /\ Contains(ValueOf(tkey), EnvMarker(NameFoo, <<>>, <<>>))
     /\ NameFoo \notin DOMAIN environ)
        => Contains(tval, EnvMarker(NameFoo, <<>>, <<>>))

----------------------------------------------------------------------------
(* Properties of declaring a key again.                                    *)

\* C17: a key line or a line with no delimiter that declares a name its
\* section already holds leaves the key as it was: its raw value, its
\* comment and its two flags.
C17_RedeclarationNoOp ==
    [][(/\ Completes
        /\ Declared.kind \in {"key", "bool"}
        /\ Declared.name \in DOMAIN sections[Declared.s].keys)
          => sections'[Declared.s].keys[Declared.name]
                = sections[Declared.s].keys[Declared.name]]_vars

----------------------------------------------------------------------------
(* Properties of the text inside a quoted value.                           *)

\* text from its first "#" or ";" on, or the empty string.
FromMark(text) ==
    IF IndexAny(text, {"#", ";"}) = -1 THEN <<>>
    ELSE Slice(text, IndexAny(text, {"#", ";"}), Len(text))

\* The step reads a key line whose value is opened by a quote that closes on
\* the line.
ClosesOnLine ==
    /\ BareKeyLine
    /\ StepOpener # <<>>
    /\ Index(Interior, StepOpener) > -1

\* The step reads a key line whose value is opened by a quote that closes on
\* a later line, which holds the closing delimiter once.
ClosesLater ==
    /\ OpensMultiline
    /\ CloserAt > -1
    /\ LastIndex(CloserLine, StepOpener) = CloserAt

\* C18: a value opened by a triple double-quote or a backquote ends at a
\* closing delimiter of its style and holds the text before it as written,
\* every "#", ";", quote of another style and backslash included; the comment
\* attached to the key holds the text accumulated before the line and, for a
\* value that closes on a later line, the comment after the closing
\* delimiter, and no text of the value.
C18_QuotedLiteral ==
    [][/\ ClosesOnLine =>
            /\ \E c \in 0..Len(Interior) :
                  /\ HasPrefixAt(Interior, c, StepOpener)
                  /\ DeclaresValue(Slice(Interior, 0, c))
            /\ CommentAfter(Completed) = TrimSpace(parser.comment)
       /\ ClosesLater =>
            /\ DeclaresValue(Interior \o Slice(StepTail, 0, CloserAt))
            /\ CommentAfter(Completed) =
                  TrimSpace(parser.comment
                              \o TrimSpace(FromMark(Slice(CloserLine, CloserAt,
                                                          Len(CloserLine)))))
      ]_vars

\* The line a=`p#;'"\`;t is parsed: a holds p#;'"\ and has no comment.
C18_Witness ==
    /\ ppc = "done"
    /\ reader = <<"a", "=", Backquote, "p", "#", ";", "'", "\"", "\\", Backquote, ";", "t",
                  "\n">>
    /\ sections[<<>>].keys[NameA].value = <<"p", "#", ";", "'", "\"", "\\">>
    /\ sections[<<>>].keys[NameA].Comment = <<>>

----------------------------------------------------------------------------
(* Properties of Reload and of an Append that failed.                      *)

\* Thread t waits for the manager's lock.
WaitsForLock(t) ==
    \/ th[t].pc \in {"parseBegin", "reloadLock", "setValue"}
    \/ DeclaringLine(t)

\* C19: a thread that is in Reload never waits for the manager's lock while
\* it holds the lock itself; the default mutex is not reentrant, so a thread
\* in that state waits for ever and its Reload never returns.
C19_ReloadReturns ==
    \A t \in Threads : ~(th[t].op = "Reload" /\ WaitsForLock(t) /\ mutex = t)

\* C20: after an Append of a thread that is alone and has queued nothing in
\* a Batch, a source that failed to load is not the first of futures, and an
\* Append of a source that can be loaded has returned nil and loaded it.
C20_FailedAppendNotSticky ==
    \A t \in Threads :
        (/\ Alone(t)
         /\ th[t].pc = "idle"
         /\ th[t].owner = <<>>
         /\ th[t].queued = <<>>
         /\ th[t].last.op = "Append")
            => /\ th[t].last.err # "" => (futures = <<>> \/ futures[1] # th[t].last.d)
               /\ ds[Len(ds)].bytes = <<"a", "=", "\n">>
                     => th[t].last.err = "" /\ IsLoaded(Len(ds))

----------------------------------------------------------------------------
(* Properties of one loop body of a substitution stage.                    *)

\* s with its first occurrence of old replaced by new.
ReplaceFirst(s, old, new) ==
    IF Index(s, old) < 0 THEN s
    ELSE Slice(s, 0, Index(s, old)) \o new \o Slice(s, Index(s, old) + Len(old), Len(s))

\* The step is a loop body of the reference stage that resolves its marker,
\* or a loop body of the environment stage that matches a marker.
ResolvesReference == tpc = "ref" /\ refCount' = refCount + 1 /\ tpc' = "ref"

ResolvesEnvironment ==
    tpc = "env" /\ envCount' = envCount + 1 /\ envPattern_FindString(tval) # <<>>

\* C21: a loop body of the reference stage, and one of the environment stage,
\* replaces the first occurrence of the marker it matched and leaves every
\* further occurrence of the same marker text in place.
C21_FirstOccurrenceOnly ==
    [][/\ ResolvesReference =>
            tval' = ReplaceFirst(tval, tvr',
                       ValueOf(LookupReference(tkey, Slice(tvr', 2, Len(tvr') - 2))))
       /\ ResolvesEnvironment =>
            tval' = ReplaceFirst(tval, tvr',
                       EnvValue(EnvOption(Slice(tvr', 2, Len(tvr') - 1))))
      ]_vars

\* The name in the first reference marker of the text being read.
FirstName == Slice(varPattern_FindString(tval), 2, Len(varPattern_FindString(tval)) - 2)

\* The first marker of the text names no key of the section of the key being
\* read, or that key itself, and no key of the default section.
FirstUnresolvable ==
    /\ tpc = "ref"
    /\ LoopRuns(refCount)
    /\ varPattern_FindString(tval) # <<>>
    /\ FirstName \notin DOMAIN sections[tkey.s].keys \/ FirstName = tkey.name
    /\ FirstName \notin DOMAIN sections[<<>>].keys

\* C22: when the first marker that is left names a key found neither in the
\* section of the key being read nor in the default section, the reference
\* stage ends with that loop body and hands on the text as it is, with that
\* marker and every marker after it.
C22_StopsAtUnresolved ==
    [][(FirstUnresolvable /\ refCount' # refCount)
          => tval' = tval /\ tpc' \in {"env", "done"}]_vars

\* The read of %(n)s%(b)s, with no key n and a plain sibling b, has returned
\* the raw value after one loop body.
C22_Witness ==
    /\ tpc = "done"
    /\ ValueOf(tkey) = Ref(NameMissing) \o Ref(NameB)
    /\ PlainSibling(tkey, NameB)
    /\ refCount = 1
    /\ tval = Ref(NameMissing) \o Ref(NameB)

----------------------------------------------------------------------------
(* Properties of inline comments and of key names in quotes.               *)

\* The places of text that hold a "#" or ";" with no backslash before it.
UnescapedMarks(text) ==
    {i \in 1..Len(text) : text[i] \in {"#", ";"} /\ (i = 1 \/ text[i - 1] # "\\")}

\* The step reads a key line with an unquoted value that holds no quote
\* character and does not end in a backslash, with inline comments enabled
\* and SpaceBeforeInlineComment off.
InlineCase ==
    /\ BareKeyLine
    /\ ~options.IgnoreInlineComment
    /\ ~options.SpaceBeforeInlineComment
    /\ ~options.AllowPythonMultilineValues
    /\ TrimmedText # <<>>
    /\ TrimmedText[Len(TrimmedText)] # "\\"
    /\ \A i \in 1..Len(TrimmedText) : TrimmedText[i] \notin {"\"", "'", Backquote}

\* The text before place i of the value, trimmed, and the text from it on.
CutAt(i) == TrimSpace(SubSeq(TrimmedText, 1, i - 1))

CommentAt(i) == SubSeq(TrimmedText, i, Len(TrimmedText))

\* C23: an unquoted value is cut at its first "#" or ";" that has no
\* backslash before it, and the text from there on goes to the comment; a
\* value with no such mark, an escaped one included, is kept whole.
C23_InlineComment ==
    [][InlineCase =>
          IF UnescapedMarks(TrimmedText) = {}
          THEN DeclaresValue(TrimmedText)
          ELSE LET i == CHOOSE m \in UnescapedMarks(TrimmedText) :
                           \A o \in UnescapedMarks(TrimmedText) : m <= o
               IN  /\ DeclaresValue(CutAt(i))
                   /\ CommentAfter(Completed) = TrimSpace(parser.comment \o CommentAt(i))
      ]_vars

\* The step reads a line that opens with one double quote, not three, and
\* holds a delimiter.
SingleQuoteLine ==
    /\ LineStep
    /\ StepLine # <<>>
    /\ StepLine[1] = "\""
    /\ ~HasPrefixAt(StepLine, 0, <<"\"", "\"", "\"">>)
    /\ IndexAny(StepLine, options.KeyValueDelimiters) > 0

\* C24: a line that opens with a single double quote is read as a line with
\* a bare key name: the name is the text before the first delimiter of the
\* line, trimmed, with its quote characters.
C24_SingleQuoteBare ==
    [][SingleQuoteLine =>
          /\ Completes
          /\ Declared.kind = "key"
          /\ Declared.name = TrimSpace(Slice(StepLine, 0, IndexAny(StepLine, options.KeyValueDelimiters)))
      ]_vars

----------------------------------------------------------------------------
(* Properties of values continued by indentation.                          *)

\* A line that starts with a space, a tab or a form feed.
Indented(l) == l # <<>> /\ l[1] \in {" ", "\t", "\f"}

\* A line without its line break.
LineText(l) == IF l # <<>> /\ l[Len(l)] = "\n" THEN ChopLast(l) ELSE l

\* The indented lines a stream starts with, each as a line break and the
\* line, and how many bytes of the stream they are.
RECURSIVE RunText(_)
RunText(s) ==
    IF ~Indented(ReadBytes(s)) THEN <<>>
    ELSE <<"\n">> \o LineText(ReadBytes(s)) \o RunText(Slice(s, Len(ReadBytes(s)), Len(s)))

RECURSIVE RunLen(_)
RunLen(s) ==
    IF ~Indented(ReadBytes(s)) THEN 0
    ELSE Len(ReadBytes(s)) + RunLen(Slice(s, Len(ReadBytes(s)), Len(s)))

\* The step reads, in Python-multiline mode, a key line that ends in a line
\* break and whose value text is plain.
PythonCase ==
    /\ BareKeyLine
    /\ options.AllowPythonMultilineValues
    /\ ~options.UnescapeValueCommentSymbols
    /\ IsPlainText(ValueText)
    /\ StepLine[Len(StepLine)] = "\n"

\* What the stream after the line holds within the peeked size.
Peeked ==
    Slice(StepTail, 0, IF parserBufferSize < Len(StepTail) THEN parserBufferSize ELSE Len(StepTail))

\* C25 as stated: in Python-multiline mode the value is the value of the
\* line followed by the whole run of indented lines that come next in the
\* stream, exactly those lines are consumed, and the stream goes on at the
\* first line that is not indented.
C25_IndentedRun ==
    [][PythonCase =>
          /\ DeclaresValue(TrimSpace(ValueText) \o RunText(StepTail))
          /\ parser'.buf = Slice(StepTail, RunLen(StepTail), Len(StepTail))
      ]_vars

\* C25: in Python-multiline mode the value is the value of the line followed
\* by the run of indented lines at the start of the peeked bytes of the
\* stream, no more than the buffer of the reader holds; exactly those bytes
\* are consumed, and the stream goes on right after them.
C25_IndentedRunPeeked ==
    [][PythonCase =>
          /\ DeclaresValue(TrimSpace(ValueText) \o RunText(Peeked))
          /\ parser'.buf = Slice(StepTail, RunLen(Peeked), Len(StepTail))
      ]_vars

\* The stream a=x, an indented y, an indented z, b=1 is parsed: a holds the
\* three lines and b is the next key.
C25_Witness ==
    /\ ppc = "done"
    /\ options.AllowPythonMultilineValues
    /\ reader = <<"a", "=", "x", "\n", " ", "y", "\n", "\t", "z", "\n", "b", "=", "1", "\n">>
    /\ sections[<<>>].keys[NameA].value = <<"x", "\n", " ", "y", "\n", "\t", "z">>
    /\ sections[<<>>].keyList = <<NameA, NameB>>

----------------------------------------------------------------------------
(* Properties of automatic key names.                                      *)

\* The declarations made by "-" key lines.
AutoDeclarations ==
    {i \in 1..Len(declared) : declared[i].kind = "key" /\ declared[i].declared = <<"-">>}

\* C26: within one parse no two "-" key lines that land in the same section
\* get the same name, and each of them has its value in the section.
C26_AutoNamesDistinct ==
    /\ \A i, j \in AutoDeclarations :
          (i # j /\ declared[i].s = declared[j].s) => declared[i].name # declared[j].name
    /\ \A i \in AutoDeclarations :
          /\ declared[i].name \in DOMAIN sections[declared[i].s].keys
          /\ sections[declared[i].s].keys[declared[i].name].value = declared[i].value

----------------------------------------------------------------------------
(* Properties of the registry under calls from two threads.                *)

\* C27: in every section the keysHash entry of every key is the raw value
\* the key holds.
C27_KeysHashIsValue ==
    \A s \in DOMAIN sections : \A k \in DOMAIN sections[s].keys :
        /\ k \in DOMAIN sections[s].keysHash
        /\ sections[s].keysHash[k] = sections[s].keys[k].value

\* The threads that are in a callback of Batch.
InCallback == {t \in Threads : th[t].owner # <<>>}

\* C28: while a thread is in a callback of Batch the batch flag is set, and
\* no Append made in a callback goes on to flush.
C28_FlagSetInCallback ==
    /\ InCallback # {} => batch
    /\ \A t \in InCallback : th[t].pc # "flush"

\* The step is the return of nil from the Reload of thread t.
ReloadReturnsNil(t) ==
    /\ th[t].op = "Reload"
    /\ th[t].pc = "range"
    /\ th[t].list = <<>>
    /\ th'[t].pc = "idle"
    /\ th'[t].last.err = ""

\* C29: when Reload returns nil the registry holds the keys of every source
\* of the list of loaded sources.
C29_ReloadKeepsSources ==
    [][\A t \in Threads :
          ReloadReturnsNil(t) => \A i \in 1..Len(sources) : IsLoaded(sources[i])]_vars

============================================================================
